---- MODULE Spec2Model ----
(***************************************************************************)
(* Text flow engine of pdf-gen (src/src/layout/text.rs): the naive, the    *)
(* natural and the spring line breakers, as state machines over the locals *)
(* of each function, one action per pass through a loop body.              *)
(*                                                                         *)
(* Lengths are integers (points); the font below has metrics that scale to *)
(* whole points at the sizes used, so the f32 arithmetic of the source is  *)
(* exact here.  Spring spacing, the one division of the engine, is kept as *)
(* an exact fraction.                                                      *)
(***************************************************************************)
EXTENDS Integers, Sequences, FiniteSets, TLC

\* ------------------------------------------------------------------ bounds
\* characters of the whole input text of one layout call
MaxLen == 3
\* chunks the input queue is cut into
MaxChunks == 2
\* characters of the text of one layout_text_spring call
MaxSpringLen == 7
\* pages a pagination loop lays out before it is cut off
MaxPages == 3

\* ------------------------------------------------------- program constants
TABSIZE == 4

\* ------------------------------------------------------------ characters
Chars == {"a", " ", "\n", "\t", "\r"}

\* char::is_whitespace on the characters of the model
IsWhitespace(ch) == ch \in {" ", "\n", "\t", "\r"}

RECURSIVE ReplaceTabs(_)
\* span.replace('\t', &" ".repeat(TABSIZE))
ReplaceTabs(s) ==
    IF s = <<>> THEN <<>>
    ELSE IF Head(s) = "\t"
         THEN [i \in 1..TABSIZE |-> " "] \o ReplaceTabs(Tail(s))
         ELSE <<Head(s)>> \o ReplaceTabs(Tail(s))

RECURSIVE ReplaceCrLf(_)
\* span.replace("\r\n", "\n")
ReplaceCrLf(s) ==
    IF s = <<>> THEN <<>>
    ELSE IF Len(s) >= 2 /\ s[1] = "\r" /\ s[2] = "\n"
         THEN <<"\n">> \o ReplaceCrLf(SubSeq(s, 3, Len(s)))
         ELSE <<Head(s)>> \o ReplaceCrLf(Tail(s))

\* .replace('\r', "\n")
ReplaceCr(s) == [i \in 1..Len(s) |-> IF s[i] = "\r" THEN "\n" ELSE s[i]]

\* tabs to spaces, then newline normalisation, as done for every chunk taken
\* from the queue
Normalize(s) == ReplaceCr(ReplaceCrLf(ReplaceTabs(s)))

\* span.chars().skip(n).collect()
Skip(s, n) == SubSeq(s, n + 1, Len(s))

\* ------------------------------------------------------------------ fonts
NoGlyph == 0

\* The face of the document's font: metrics in font units, the Unicode
\* character map (glyph 0 is "no glyph") and the advances per glyph id.
Face ==
    [units_per_em |-> 1000, ascender |-> 500, descender |-> -500, line_gap |-> 0,
     cmap |-> [c \in {"a", " ", "?"} |-> CASE c = "a" -> 1 [] c = " " -> 2 [] c = "?" -> 3],
     hor_advance |-> [g \in 1..3 |-> 500]]

\* A second face, of another em size and with advances that differ from
\* glyph to glyph; it has neither a '?' nor a U+FFFD glyph.
WideFace ==
    [units_per_em |-> 2000, ascender |-> 1000, descender |-> -1000, line_gap |-> 0,
     cmap |-> [c \in {"a", " "} |-> CASE c = "a" -> 1 [] c = " " -> 2],
     hor_advance |-> [g \in 1..2 |-> IF g = 1 THEN 3000 ELSE 1000]]

\* document.fonts, indexed by font id
fonts == <<Face, WideFace>>

\* the (font id, size) pairs chunks are set in
SpanFonts == {[id |-> 1, size |-> 2], [id |-> 1, size |-> 4]}

\* face.glyph_index(ch)
glyph_index(face, ch) ==
    IF ch \in DOMAIN face.cmap THEN face.cmap[ch] ELSE NoGlyph

\* glyph_index(ch), else that of U+FFFD, else that of '?'; NoGlyph is the
\* failed expect("font has a question mark glyph")
RenderGlyph(face, ch) ==
    IF glyph_index(face, ch) # NoGlyph THEN glyph_index(face, ch)
    ELSE IF glyph_index(face, "FFFD") # NoGlyph THEN glyph_index(face, "FFFD")
    ELSE glyph_index(face, "?")

\* face.glyph_hor_advance(gid).unwrap_or_default()
glyph_hor_advance(face, gid) ==
    IF gid \in DOMAIN face.hor_advance THEN face.hor_advance[gid] ELSE 0

\* (size / units_per_em) * v
Scaled(font, v) == (font.size * v) \div fonts[font.id].units_per_em

Leading(font) == Scaled(font, fonts[font.id].line_gap)
Ascent(font)  == Scaled(font, fonts[font.id].ascender)
Descent(font) == Scaled(font, fonts[font.id].descender)
\* LineGap with a sign slip: the descent added, not subtracted
LineGapSignSlip(font) == Leading(font) + Ascent(font) + Descent(font)

\* the local line_gap: how far one line is below the previous one
LineGap(font) == Leading(font) + Ascent(font) - Descent(font)

\* hadv of one character in a span font
HAdv(font, ch) ==
    Scaled(font, glyph_hor_advance(fonts[font.id], RenderGlyph(fonts[font.id], ch)))

\* the expect() of the fallback chain fails
NoQuestionMark(font, ch) == RenderGlyph(fonts[font.id], ch) = NoGlyph

\* baseline_offset(font, size)
baseline_offset(font) == 0 - Ascent(font)

\* baseline_start(page, font, size) for a page whose content box is box
baseline_start(box, font) == <<box.x1, box.y2 + baseline_offset(font)>>

\* ---------------------------------------------------------------- inputs
SeqsUpTo(S, n) == UNION {[1..m -> S] : m \in 0..n}

\* the ways to cut n characters into k consecutive chunks (empty ones too)
Cuts(n, k) ==
    {c \in [0..k -> 0..n] :
        /\ c[0] = 0
        /\ c[k] = n
        /\ \A i \in 1..k : c[i - 1] <= c[i]}

\* the queue of (String, Colour, SpanFont) made of t cut at c; the colour of
\* a chunk is its place in the queue
Queue(t, k, c, f) ==
    [i \in 1..k |-> [s |-> SubSeq(t, c[i - 1] + 1, c[i]), colour |-> i, font |-> f[i]]]

\* ------------------------------------------------------------------ state
VARIABLES
    algo,           \* which layout function is running: "naive" or "natural"
    start,          \* argument start: <<x, y>>
    wrap_offset,    \* argument wrap_offset
    bounding_box,   \* argument bounding_box: [x1, y1, x2, y2]
    input,          \* the queue as it was passed to the call
    text,           \* argument text: the queue, consumed in place
    page,           \* the spans the call has added to the page
    spans,          \* local spans: Vec<SpanLayout>
    x, y,           \* locals x, y (returned when the call ends)
    current_span,   \* local current_span
    span,           \* the normalised characters of the chunk being laid out
    ci,             \* index of the next character of span (0-based)
    input_idx,      \* natural: index into text of the chunk being laid out
    last_break,     \* natural: Option<BreakPoint>, <<>> for None
    line_start_x,   \* natural: x at which the current line started
    words,          \* spring: VecDeque<Word>, the words not yet on a line
    line,           \* spring: Vec<Word>, the line being filled
    words_width,    \* spring: sum of the widths of the words in line
    space_width,    \* spring: the spacing last computed for a line, a fraction
    pages,          \* pagination: the pages finished so far, each its spans
    phase,          \* "single": one call; "paginate": the caller's loop;
                    \* "reference": the one call over the whole text
    pc,             \* "loop": at the head of 'inputspans, "chars": at the head
                    \* of 'chars, "done": returned; spring: "line", "check",
                    \* "emit", "done"; font writing and the document: see there
    font_face,      \* Font.face: the face of the font being loaded and written
    id_widths,      \* write_cid: Vec<(u16, f32)>, sorted by glyph id
    pos,            \* position of the loop over id_widths / over ids (1-based)
    start_cid,      \* write_cid: local start_cid
    current_widths, \* write_cid: local current_widths
    widths,         \* write_cid: the runs given to widths.consecutive, in order
    default_width,  \* write_cid: the value given to cid_font.default_width
    ids,            \* write_to_unicode: Vec<(u16, char)>, sorted by glyph id
    cmap_blocks,    \* write_to_unicode: local cmap_blocks
    current_block,  \* write_to_unicode: local current_block
    high_byte,      \* write_to_unicode: local high_byte
    call,           \* the last call made on the library: function and arguments
    result,         \* what that call returned
    page_order,     \* Document.page_order: Vec<Id<Page>>
    doc_pages,      \* Document.pages: the arena, indexed by page id
    refs,           \* ObjectReferences.refs: HashMap<RefType, Ref>
    next_id,        \* ObjectReferences.next_id
    issued,         \* the Refs gen has returned to its callers, in call order
    page_links,     \* Page.links of every page of the arena, by page id
    page_index,     \* Document::write: place in page_order of the page written
    writer,         \* Document::write: the objects put into the Pdf in memory
    sink            \* the bytes given to the output writer w

vars ==
    <<algo, start, wrap_offset, bounding_box, input, text, page, spans, x, y,
      current_span, span, ci, input_idx, last_break, line_start_x,
      words, line, words_width, space_width, pages, phase, pc,
      font_face, id_widths, pos, start_cid, current_widths, widths, default_width,
      ids, cmap_blocks, current_block, high_byte, call, result, page_order,
      doc_pages, refs, next_id, issued, page_links, page_index, writer, sink>>

args == <<algo, start, wrap_offset, bounding_box, input>>

\* the locals of layout_text_spring
spring == <<words, line, words_width, space_width>>

\* the state of the loop that calls layout page after page
book == <<pages, phase>>

\* the locals of Font::write
fontw ==
    <<font_face, id_widths, pos, start_cid, current_widths, widths, default_width,
      ids, cmap_blocks, current_block, high_byte>>

\* the last library call and its result
api == <<call, result>>

\* the Document
doc == <<page_order, doc_pages>>
writing == <<refs, next_id, issued, page_links, page_index, writer, sink>>

\* what the layout functions do not touch
others == <<fontw, api, doc, writing>>

\* ObjectReferences::new()
NewRefs == [refs |-> <<>>, next_id |-> 3]

\* no document is being written: the references are new, the Pdf in memory
\* and the output are empty
WritingIdle ==
    /\ refs = NewRefs.refs
    /\ next_id = NewRefs.next_id
    /\ issued = <<>>
    /\ page_links = <<>>
    /\ page_index = 0
    /\ writer = <<>>
    /\ sink = <<>>

\* no font is being written, no call has been made, the document is empty
OthersIdle ==
    /\ font_face = <<>>
    /\ id_widths = <<>>
    /\ pos = 0
    /\ start_cid = 0
    /\ current_widths = <<>>
    /\ widths = <<>>
    /\ default_width = 0
    /\ ids = <<>>
    /\ cmap_blocks = <<>>
    /\ current_block = <<>>
    /\ high_byte = 0
    /\ call = <<>>
    /\ result = <<>>
    /\ page_order = <<>>
    /\ doc_pages = <<>>
    /\ WritingIdle

\* one element of the queue
Chunk(s, colour, font) == [s |-> s, colour |-> colour, font |-> font]

\* SpanLayout { text, font, colour, coords }
SpanLayout(t, font, colour, cx, cy) ==
    [text |-> t, font |-> font, colour |-> colour, coords |-> <<cx, cy>>]

\* value of current_span while no chunk is being laid out
NoSpan == SpanLayout(<<>>, [id |-> 1, size |-> 2], 0, 0, 0)

\* the character under the cursor
ch == span[ci + 1]
font == current_span.font
colour == current_span.colour

\* Overflows that waits for the pen itself to reach the edge
OverflowsPastEdge(px, hadv, box) == px >= box.x2

\* Overflows with > for >=
OverflowsStrict(px, hadv, box) == px + hadv > box.x2

\* if x + hadv >= bounding_box.x2
Overflows(px, hadv, box) == px + hadv >= box.x2

\* if y < bounding_box.y1 + descent
BelowBox(py, box, descent) == py < box.y1 + descent

\* text.insert(0, (remaining, colour, font)) unless remaining is empty
InsertRemaining(remaining, q) ==
    IF remaining # <<>> THEN <<Chunk(remaining, colour, font)>> \o q ELSE q

\* for span in spans { if !span.text.is_empty() { page.add_span(span) } }
AddSpans(pg, ss) == pg \o SelectSeq(ss, LAMBDA sp : sp.text # <<>>)

\* the boxes and starts of the model: the box has its corner at the origin;
\* layout starts on the first baseline of the box (baseline_start), at the
\* left edge or indented by sx, and wrapped lines are indented by wo
Widths == {1, 3}
Heights == {3, 8}
Indents == {[sx |-> 0, wo |-> 0], [sx |-> 0, wo |-> 1], [sx |-> 1, wo |-> 0]}

\* the argument start: the first baseline of the box, sx to the right
StartAt(box, f, sx) == <<baseline_start(box, f)[1] + sx, baseline_start(box, f)[2]>>

\* the spacing of a line, num / den; no line has been spaced yet
Frac(n, d) == [num |-> n, den |-> d]
NoSpacing == Frac(0, 1)

\* entry of layout_text_naive / layout_text_natural: the arguments, and the
\* locals as declared in front of 'inputspans
LayoutEntry(a, box, st, wo, q, ph) ==
    /\ algo = a
    /\ bounding_box = box
    /\ start = st
    /\ wrap_offset = wo
    /\ input = q
    /\ text = q
    /\ page = <<>>
    /\ spans = <<>>
    /\ x = st[1]
    /\ y = st[2]
    /\ current_span = NoSpan
    /\ span = <<>>
    /\ ci = 0
    /\ input_idx = 0
    /\ last_break = <<>>
    /\ line_start_x = st[1]
    /\ words = <<>>
    /\ line = <<>>
    /\ words_width = 0
    /\ space_width = NoSpacing
    /\ pages = <<>>
    /\ phase = ph
    /\ pc = "loop"
    /\ OthersIdle

\* the font baseline_start is called with: that of the first chunk
StartFont(k, f) == IF k = 0 THEN [id |-> 1, size |-> 2] ELSE f[1]

\* The example of the doc comment of layout_text_naive: "asdf asdf" on a page
\* that fits 6 characters.  The letters are all the glyph "a"; at size 2 a
\* character advances by 1 and fits while x + 1 < x2, so x2 = 7 fits six.
ExampleText == <<"a", "a", "a", "a", " ", "a", "a", "a", "a">>
ExampleFont == [id |-> 1, size |-> 2]
ExampleBox == [x1 |-> 0, y1 |-> 0, x2 |-> 7, y2 |-> 8]

InitExample ==
    \E a \in {"naive", "natural"} :
        LayoutEntry(a, ExampleBox, StartAt(ExampleBox, ExampleFont, 0), 0,
                    <<Chunk(ExampleText, 1, ExampleFont)>>, "single")

Init ==
    \/ \E t \in SeqsUpTo(Chars, MaxLen), k \in 0..MaxChunks :
         \E c \in Cuts(Len(t), k), f \in [1..k -> SpanFonts],
            w \in Widths, h \in Heights, g \in Indents, a \in {"naive", "natural"} :
           LET box == [x1 |-> 0, y1 |-> 0, x2 |-> w, y2 |-> h]
           IN  LayoutEntry(a, box, StartAt(box, StartFont(k, f), g.sx), g.wo,
                           Queue(t, k, c, f), "single")
    \/ InitExample

\* -------------------------------------------------------- layout_text_naive
\* 'inputspans, one more chunk: text.remove(0), normalise, open current_span
NaiveTake ==
    /\ algo = "naive" /\ pc = "loop" /\ text # <<>>
    /\ text' = Tail(text)
    /\ span' = Normalize(Head(text).s)
    /\ current_span' = SpanLayout(<<>>, Head(text).font, Head(text).colour, x, y)
    /\ ci' = 0
    /\ pc' = "chars"
    /\ UNCHANGED <<args, spring, book, others, page, spans, x, y, input_idx, last_break, line_start_x>>

\* the queue after the '\n' under the cursor: what follows the newline goes
\* back to the front, and when the next line is below the box the rest of
\* the chunk from the newline on is put in front of that
NaiveNewlineQueue(q, s, i, below) ==
    LET q1 == InsertRemaining(Skip(s, i + 1), q)
    IN  IF below THEN InsertRemaining(Skip(s, i), q1) ELSE q1

\* 'chars, ch == '\n'
NaiveNewline ==
    /\ algo = "naive" /\ pc = "chars" /\ ci < Len(span) /\ ch = "\n"
    /\ LET ny    == y - LineGap(font)
           below == BelowBox(ny, bounding_box, Descent(font))
       IN  /\ text' = NaiveNewlineQueue(text, span, ci, below)
           /\ x' = start[1]
           /\ y' = ny
           /\ spans' = Append(spans, current_span)
           /\ IF below
              THEN /\ page' = AddSpans(page, spans')
                   /\ pc' = "done"
              ELSE /\ page' = page
                   /\ pc' = "loop"
    /\ current_span' = NoSpan
    /\ span' = <<>>
    /\ ci' = 0
    /\ UNCHANGED <<args, spring, book, others, input_idx, last_break, line_start_x>>

\* the spans pushed when a character overflows the line: the current span,
\* and once more when the new line is below the box
NaiveBreakSpans(ss, cur, below) ==
    IF below THEN Append(Append(ss, cur), cur) ELSE Append(ss, cur)

\* 'chars, x + hadv >= bounding_box.x2
NaiveBreak ==
    /\ algo = "naive" /\ pc = "chars" /\ ci < Len(span) /\ ch # "\n"
    /\ ~NoQuestionMark(font, ch)
    /\ Overflows(x, HAdv(font, ch), bounding_box)
    /\ LET nx    == start[1] + wrap_offset
           ny    == y - LineGap(font)
           below == BelowBox(ny, bounding_box, Descent(font))
       IN  /\ spans' = NaiveBreakSpans(spans, current_span, below)
           /\ y' = ny
           /\ IF below
              THEN /\ text' = InsertRemaining(Skip(span, ci), text)
                   /\ page' = AddSpans(page, spans')
                   /\ x' = nx
                   /\ current_span' = NoSpan
                   /\ span' = <<>>
                   /\ ci' = 0
                   /\ pc' = "done"
              ELSE /\ current_span' = [current_span EXCEPT !.text = <<ch>>,
                                                           !.coords = <<nx, ny>>]
                   /\ x' = nx + HAdv(font, ch)
                   /\ ci' = ci + 1
                   /\ UNCHANGED <<text, page, span, pc>>
    /\ UNCHANGED <<args, spring, book, others, input_idx, last_break, line_start_x>>

\* 'chars, the character fits
NaivePlace ==
    /\ algo = "naive" /\ pc = "chars" /\ ci < Len(span) /\ ch # "\n"
    /\ ~NoQuestionMark(font, ch)
    /\ ~Overflows(x, HAdv(font, ch), bounding_box)
    /\ current_span' = [current_span EXCEPT !.text = Append(@, ch)]
    /\ x' = x + HAdv(font, ch)
    /\ ci' = ci + 1
    /\ UNCHANGED <<args, spring, book, others, text, page, spans, y, span, input_idx, last_break,
                   line_start_x, pc>>

\* 'chars is over: spans.push(current_span.clone())
NaiveEndChunk ==
    /\ algo = "naive" /\ pc = "chars" /\ ci >= Len(span)
    /\ spans' = Append(spans, current_span)
    /\ current_span' = NoSpan
    /\ span' = <<>>
    /\ ci' = 0
    /\ pc' = "loop"
    /\ UNCHANGED <<args, spring, book, others, text, page, x, y, input_idx, last_break, line_start_x>>

\* 'inputspans is over: the spans go to the page, (x, y) is returned
NaiveReturn ==
    /\ algo = "naive" /\ pc = "loop" /\ text = <<>>
    /\ page' = AddSpans(page, spans)
    /\ pc' = "done"
    /\ UNCHANGED <<args, spring, book, others, text, spans, x, y, current_span, span, ci, input_idx,
                   last_break, line_start_x>>

\* ------------------------------------------------------ layout_text_natural
\* a break point that names the run behind the one it was recorded in
BreakPointNextRun(si, chi, ii, ici) ==
    [span_idx |-> si + 1, char_idx |-> chi, input_idx |-> ii, input_char_idx |-> ici]

\* BreakPoint { span_idx, char_idx, input_idx, input_char_idx }
BreakPoint(si, chi, ii, ici) ==
    [span_idx |-> si, char_idx |-> chi, input_idx |-> ii, input_char_idx |-> ici]

\* text.drain(..n)
Drain(q, n) == Skip(q, n)

\* after 'inputspans: if input_idx > 0 && input_idx <= text.len() { text.drain(..input_idx) }
PostDrain(q, idx) == IF idx > 0 /\ idx <= Len(q) THEN Drain(q, idx) ELSE q

\* s.chars().take(n).collect()
Take(s, n) == SubSeq(s, 1, IF n < Len(s) THEN n ELSE Len(s))

\* 'inputspans, the chunk at input_idx: a chunk that starts in the middle of a
\* line is a break point; normalise, open current_span
NaturalTake ==
    /\ algo = "natural" /\ pc = "loop" /\ input_idx < Len(text)
    /\ span' = Normalize(text[input_idx + 1].s)
    /\ last_break' =
         IF x > line_start_x /\ spans # <<>>
         THEN <<BreakPoint(Len(spans) - 1, Len(spans[Len(spans)].text), input_idx, 0)>>
         ELSE last_break
    /\ current_span' = SpanLayout(<<>>, text[input_idx + 1].font,
                                  text[input_idx + 1].colour, x, y)
    /\ ci' = 0
    /\ pc' = "chars"
    /\ UNCHANGED <<args, spring, book, others, text, page, spans, x, y, input_idx, line_start_x>>

\* spans.push(current_span) unless its text is empty
PushNonEmpty(ss, cur) == IF cur.text # <<>> THEN Append(ss, cur) ELSE ss

\* the queue returned when the line after the character under the cursor is
\* below the box: the chunks up to and including the current one are
\* drained, the rest of the current chunk is put in front, and the drain
\* after the loop runs
NaturalLeftover(q, s, i, idx) ==
    PostDrain(InsertRemaining(Skip(s, i), Drain(q, idx + 1)), idx)

\* 'chars, ch == '\n'
NaturalNewline ==
    /\ algo = "natural" /\ pc = "chars" /\ ci < Len(span) /\ ch = "\n"
    /\ LET ny    == y - LineGap(font)
           below == BelowBox(ny, bounding_box, Descent(font))
       IN  /\ spans' = PushNonEmpty(spans, current_span)
           /\ x' = start[1]
           /\ y' = ny
           /\ line_start_x' = start[1]
           /\ last_break' = <<>>
           /\ IF below
              THEN /\ text' = NaturalLeftover(text, span, ci, input_idx)
                   /\ page' = AddSpans(page, spans')
                   /\ current_span' = NoSpan
                   /\ span' = <<>>
                   /\ ci' = 0
                   /\ pc' = "done"
              ELSE /\ ci' = ci + 1
                   /\ current_span' = SpanLayout(<<>>, font, colour, start[1], ny)
                   /\ UNCHANGED <<text, page, span, pc>>
    /\ UNCHANGED <<args, spring, book, others, input_idx>>

\* while spans.len() > bp.span_idx + 1 { spans.pop() }, then the text of the
\* last span is cut to bp.char_idx characters
Rewound(ss, bp) ==
    LET kept == IF Len(ss) > bp.span_idx + 1 THEN SubSeq(ss, 1, bp.span_idx + 1) ELSE ss
    IN  IF kept = <<>> THEN kept
        ELSE [kept EXCEPT ![Len(kept)].text = Take(@, bp.char_idx)]

RECURSIVE SkipWhitespace(_, _)
\* while restart_ci < len && is_whitespace && != '\n' { restart_ci += 1 }
SkipWhitespace(s, i) ==
    IF i < Len(s) /\ IsWhitespace(s[i + 1]) /\ s[i + 1] # "\n"
    THEN SkipWhitespace(s, i + 1)
    ELSE i

\* the queue returned when the line after a rewind is below the box
RewindLeftover(q, s, bp, idx) ==
    PostDrain(InsertRemaining(Skip(s, bp.input_char_idx), Drain(q, bp.input_idx)), idx)

\* 'chars, x + hadv >= bounding_box.x2 and a break point is recorded: rewind
NaturalRewind ==
    /\ algo = "natural" /\ pc = "chars" /\ ci < Len(span) /\ ch # "\n"
    /\ ~NoQuestionMark(font, ch)
    /\ Overflows(x, HAdv(font, ch), bounding_box)
    /\ last_break # <<>>
    /\ LET bp    == last_break[1]
           nx    == start[1] + wrap_offset
           ny    == y - LineGap(font)
           below == BelowBox(ny, bounding_box, Descent(font))
           restart_chars == Normalize(text[bp.input_idx + 1].s)
           restart_ci    == SkipWhitespace(restart_chars, bp.input_char_idx)
       IN  /\ spans' = Rewound(spans, bp)
           /\ x' = nx
           /\ y' = ny
           /\ line_start_x' = nx
           /\ IF below
              THEN /\ text' = RewindLeftover(text, span, bp, input_idx)
                   /\ page' = AddSpans(page, spans')
                   /\ pc' = "done"
                   /\ UNCHANGED <<input_idx, last_break>>
              ELSE /\ IF restart_ci < Len(restart_chars)
                      THEN /\ text' = [text EXCEPT ![bp.input_idx + 1].s =
                                                      Skip(restart_chars, restart_ci)]
                           /\ input_idx' = bp.input_idx
                      ELSE IF bp.input_idx + 1 < Len(text)
                           THEN /\ text' = Drain(text, bp.input_idx + 1)
                                /\ input_idx' = 0
                           ELSE /\ text' = text
                                /\ input_idx' = bp.input_idx + 1
                   /\ last_break' = <<>>
                   /\ page' = page
                   /\ pc' = "loop"
    /\ current_span' = NoSpan
    /\ span' = <<>>
    /\ ci' = 0
    /\ UNCHANGED <<args, spring, book, others>>

\* 'chars, x + hadv >= bounding_box.x2 and no break point: break at the character
NaturalForcedBreak ==
    /\ algo = "natural" /\ pc = "chars" /\ ci < Len(span) /\ ch # "\n"
    /\ ~NoQuestionMark(font, ch)
    /\ Overflows(x, HAdv(font, ch), bounding_box)
    /\ last_break = <<>>
    /\ LET nx    == start[1] + wrap_offset
           ny    == y - LineGap(font)
           below == BelowBox(ny, bounding_box, Descent(font))
       IN  /\ spans' = Append(spans, current_span)
           /\ y' = ny
           /\ line_start_x' = nx
           /\ last_break' = <<>>
           /\ IF below
              THEN /\ text' = NaturalLeftover(text, span, ci, input_idx)
                   /\ page' = AddSpans(page, spans')
                   /\ x' = nx
                   /\ current_span' = NoSpan
                   /\ span' = <<>>
                   /\ ci' = 0
                   /\ pc' = "done"
              ELSE /\ current_span' = [current_span EXCEPT !.text = <<ch>>,
                                                           !.coords = <<nx, ny>>]
                   /\ x' = nx + HAdv(font, ch)
                   /\ ci' = ci + 1
                   /\ UNCHANGED <<text, page, span, pc>>
    /\ UNCHANGED <<args, spring, book, others, input_idx>>

\* BreakAfter without the whitespace test: a break point after every character
BreakAfterAny(c, ss, cur, idx, i, old) ==
    <<BreakPoint(Len(ss), Len(cur.text), idx, i + 1)>>

\* the break point recorded after a placed character
BreakAfter(c, ss, cur, idx, i, old) ==
    IF IsWhitespace(c)
    THEN <<BreakPoint(Len(ss), Len(cur.text), idx, i + 1)>>
    ELSE old

\* 'chars, the character fits
NaturalPlace ==
    /\ algo = "natural" /\ pc = "chars" /\ ci < Len(span) /\ ch # "\n"
    /\ ~NoQuestionMark(font, ch)
    /\ ~Overflows(x, HAdv(font, ch), bounding_box)
    /\ current_span' = [current_span EXCEPT !.text = Append(@, ch)]
    /\ x' = x + HAdv(font, ch)
    /\ last_break' = BreakAfter(ch, spans, current_span', input_idx, ci, last_break)
    /\ ci' = ci + 1
    /\ UNCHANGED <<args, spring, book, others, text, page, spans, y, span, input_idx, line_start_x, pc>>

\* 'chars is over: push the span unless empty, input_idx += 1
NaturalEndChunk ==
    /\ algo = "natural" /\ pc = "chars" /\ ci >= Len(span)
    /\ spans' = PushNonEmpty(spans, current_span)
    /\ input_idx' = input_idx + 1
    /\ current_span' = NoSpan
    /\ span' = <<>>
    /\ ci' = 0
    /\ pc' = "loop"
    /\ UNCHANGED <<args, spring, book, others, text, page, x, y, last_break, line_start_x>>

\* 'inputspans is over: drain the chunks laid out, the spans go to the page
NaturalReturn ==
    /\ algo = "natural" /\ pc = "loop" /\ input_idx >= Len(text)
    /\ text' = PostDrain(text, input_idx)
    /\ page' = AddSpans(page, spans)
    /\ pc' = "done"
    /\ UNCHANGED <<args, spring, book, others, spans, x, y, current_span, span, ci, input_idx,
                   last_break, line_start_x>>

Next ==
    \/ NaiveTake \/ NaiveNewline \/ NaiveBreak \/ NaivePlace \/ NaiveEndChunk
    \/ NaiveReturn
    \/ NaturalTake \/ NaturalNewline \/ NaturalRewind \/ NaturalForcedBreak
    \/ NaturalPlace \/ NaturalEndChunk \/ NaturalReturn

Spec == Init /\ [][Next]_vars

\* ------------------------------------------------------- layout_text_spring
\* the characters of the texts laid out with springs
SpringChars == {"a", " ", "\n"}

\* font.glyph_id(ch): None is NoGlyph
glyph_id(face, c) == glyph_index(face, c)

RECURSIVE width_of_text(_, _)
\* width_of_text that gives a character without a glyph the advance of the
\* glyph the layout would draw for it
WidthWithFallback(t, f) ==
    IF t = <<>> THEN 0
    ELSE Scaled(f, glyph_hor_advance(fonts[f.id], RenderGlyph(fonts[f.id], Head(t))))
         + width_of_text(Tail(t), f)

\* width_of_text(text, font, size): the characters without a glyph are
\* filtered out, the advances of the others are scaled and summed
width_of_text(t, f) ==
    IF t = <<>> THEN 0
    ELSE (IF glyph_id(fonts[f.id], Head(t)) # NoGlyph
          THEN Scaled(f, glyph_hor_advance(fonts[f.id], glyph_id(fonts[f.id], Head(t))))
          ELSE 0)
         + width_of_text(Tail(t), f)

RECURSIVE SplitFrom(_, _)
\* the words of s that follow the word w under way
SplitFrom(s, w) ==
    IF s = <<>> THEN (IF w = <<>> THEN <<>> ELSE <<w>>)
    ELSE IF IsWhitespace(Head(s))
         THEN (IF w = <<>> THEN <<>> ELSE <<w>>) \o SplitFrom(Tail(s), <<>>)
         ELSE SplitFrom(Tail(s), Append(w, Head(s)))

\* text.split_whitespace()
split_whitespace(s) == SplitFrom(s, <<>>)

\* Word { word, width }
Word(w, f) == [word |-> w, width |-> width_of_text(w, f)]

\* the argument text, font_id and size of the call
SpringFont == input[1].font

\* max_width = bounding_box.x2 - bounding_box.x1
max_width == bounding_box.x2 - bounding_box.x1

\* spaces_width = space_width * (line.len() - 1), space_width the width of " "
spaces_width == width_of_text(<<" ">>, SpringFont) * (Len(line) - 1)

\* if words_width + spaces_width >= max_width
SpringOverflows == words_width + spaces_width >= max_width

\* if words_width + (spaces_width * 0.8) <= max_width, in tenths
SquishFits == 10 * words_width + 8 * spaces_width <= 10 * max_width

\* Spacing with the gap divided among the words, not among the spaces
SpacingPerWord(mw, ww, n) == Frac(mw - ww, n)

\* let space_width = (max_width - words_width) / ((line.len() - 1) as f32)
Spacing(mw, ww, n) == Frac(mw - ww, n - 1)

RECURSIVE WidthOfWords(_)
\* sum of word.width over ws
WidthOfWords(ws) == IF ws = <<>> THEN 0 ELSE Head(ws).width + WidthOfWords(Tail(ws))

\* x of word k (from 1) of the line: x1, then x += word.width + space_width
\* after each word; a fraction over the denominator of the spacing
SpringX(ln, k, sp, x1) ==
    IF k = 1 THEN Frac(x1, 1)
    ELSE Frac((x1 + WidthOfWords(SubSeq(ln, 1, k - 1))) * sp.den + (k - 1) * sp.num, sp.den)

\* the widths of the model's spring boxes, their left edges and their top
SpringWidths == {2, 3, 6}
SpringLefts == {0, 1}
SpringTop == 8

InitSpring ==
    \E t \in SeqsUpTo(SpringChars, MaxSpringLen), f \in SpanFonts,
       w \in SpringWidths, l \in SpringLefts :
        LET box == [x1 |-> l, y1 |-> 0, x2 |-> l + w, y2 |-> SpringTop]
        IN  /\ algo = "spring"
            /\ bounding_box = box
            /\ start = baseline_start(box, f)
            /\ wrap_offset = 0
            /\ input = <<Chunk(t, 0, f)>>
            /\ text = input
            /\ page = <<>>
            /\ spans = <<>>
            /\ x = box.x1
            /\ y = box.y2 + baseline_offset(f)
            /\ current_span = NoSpan
            /\ span = <<>>
            /\ ci = 0
            /\ input_idx = 0
            /\ last_break = <<>>
            /\ line_start_x = box.x1
            /\ words = [i \in DOMAIN split_whitespace(t) |-> Word(split_whitespace(t)[i], f)]
            /\ line = <<>>
            /\ words_width = 0
            /\ space_width = NoSpacing
            /\ pages = <<>>
            /\ phase = "single"
            /\ pc = "line"
            /\ OthersIdle

\* what no step of layout_text_spring changes
SpringUnchanged ==
    UNCHANGED <<args, book, others, text, spans, x, current_span, span, ci, input_idx,
                last_break, line_start_x>>

\* 'line: words.pop_front(), line.push(word), words_width += word_width
SpringPop ==
    /\ algo = "spring" /\ pc = "line" /\ words # <<>>
    /\ words' = Tail(words)
    /\ line' = Append(line, Head(words))
    /\ words_width' = words_width + Head(words).width
    /\ pc' = "check"
    /\ UNCHANGED <<page, y, space_width>>
    /\ SpringUnchanged

\* 'line: words.is_empty(), break 'line
SpringLineEnd ==
    /\ algo = "spring" /\ pc = "line" /\ words = <<>>
    /\ pc' = "emit"
    /\ UNCHANGED <<page, y, words, line, words_width, space_width>>
    /\ SpringUnchanged

\* not overflowing yet: the next pass of 'line
SpringFits ==
    /\ algo = "spring" /\ pc = "check" /\ ~SpringOverflows
    /\ pc' = "line"
    /\ UNCHANGED <<page, y, words, line, words_width, space_width>>
    /\ SpringUnchanged

\* overflowing, and the spaces can be squished: break 'line
SpringSquish ==
    /\ algo = "spring" /\ pc = "check" /\ SpringOverflows /\ SquishFits
    /\ pc' = "emit"
    /\ UNCHANGED <<page, y, words, line, words_width, space_width>>
    /\ SpringUnchanged

\* overflowing and too tight: the word goes back to the front of the words,
\* and 'line goes on
SpringPushBack ==
    /\ algo = "spring" /\ pc = "check" /\ SpringOverflows /\ ~SquishFits
    /\ words_width' = words_width - line[Len(line)].width
    /\ words' = <<line[Len(line)]>> \o words
    /\ line' = SubSeq(line, 1, Len(line) - 1)
    /\ pc' = "line"
    /\ UNCHANGED <<page, y, space_width>>
    /\ SpringUnchanged

\* the line is not empty: the spacing is computed, every word is added to the
\* page, y moves to the next line
SpringEmit ==
    /\ algo = "spring" /\ pc = "emit" /\ line # <<>>
    /\ space_width' = Spacing(max_width, words_width, Len(line))
    /\ page' = page \o [k \in DOMAIN line |->
                          SpanLayout(line[k].word, SpringFont, 0,
                                     SpringX(line, k, space_width', bounding_box.x1), y)]
    /\ y' = y + baseline_offset(SpringFont)
    /\ line' = <<>>
    /\ words_width' = 0
    /\ pc' = "line"
    /\ UNCHANGED words
    /\ SpringUnchanged

\* the line is empty: break 'layout
SpringReturn ==
    /\ algo = "spring" /\ pc = "emit" /\ line = <<>>
    /\ pc' = "done"
    /\ UNCHANGED <<page, y, words, line, words_width, space_width>>
    /\ SpringUnchanged

NextSpring ==
    \/ SpringPop \/ SpringLineEnd \/ SpringFits \/ SpringSquish \/ SpringPushBack
    \/ SpringEmit \/ SpringReturn

\* the function runs on its own thread of control: while a step is possible
\* one is taken
SpecSpring == InitSpring /\ [][NextSpring]_vars /\ WF_vars(NextSpring)

\* ------------------------------------------------------------ pagination
\* a box of the same width that is tall enough for every line the input can
\* be broken into
TallBox(box) ==
    [box EXCEPT !.y2 = box.y1 + (TABSIZE * MaxLen + 2) * LineGap([id |-> 1, size |-> 4])]

\* the font of the document the loop lays out
BookFont == IF input = <<>> THEN [id |-> 1, size |-> 2] ELSE input[1].font

\* the locals of a layout call, as declared in front of 'inputspans
EnterLayout(st) ==
    /\ page' = <<>>
    /\ spans' = <<>>
    /\ x' = st[1]
    /\ y' = st[2]
    /\ current_span' = NoSpan
    /\ span' = <<>>
    /\ ci' = 0
    /\ input_idx' = 0
    /\ last_break' = <<>>
    /\ line_start_x' = st[1]
    /\ pc' = "loop"

InitPages ==
    \E t \in SeqsUpTo(Chars, MaxLen), k \in 0..MaxChunks :
      \E c \in Cuts(Len(t), k), f \in SpanFonts,
         w \in Widths, h \in Heights, g \in Indents, a \in {"naive", "natural"} :
        LET box == [x1 |-> 0, y1 |-> 0, x2 |-> w, y2 |-> h]
        IN  LayoutEntry(a, box, StartAt(box, f, g.sx), g.wo,
                        Queue(t, k, c, [i \in 1..k |-> f]), "paginate")

\* while !text.is_empty(): the page is added to the document, and layout is
\* called with the same queue on a new page of the same dimensions
NextPage ==
    /\ phase = "paginate" /\ pc = "done" /\ text # <<>>
    /\ Len(pages) + 1 < MaxPages
    /\ pages' = Append(pages, page)
    /\ EnterLayout(start)
    /\ UNCHANGED <<args, spring, others, text, phase>>

\* the queue is empty: the last page is added to the document; the whole
\* text is then laid out by one call in the tall box
Reference ==
    /\ phase = "paginate" /\ pc = "done" /\ text = <<>>
    /\ pages' = Append(pages, page)
    /\ phase' = "reference"
    /\ bounding_box' = TallBox(bounding_box)
    /\ start' = StartAt(bounding_box', BookFont, start[1] - bounding_box.x1)
    /\ text' = input
    /\ EnterLayout(start')
    /\ UNCHANGED <<algo, wrap_offset, input, spring, others>>

NextPages == Next \/ NextPage \/ Reference

SpecPages == InitPages /\ [][NextPages]_vars

\* ------------------------------------------------------------ vocabulary
RECURSIVE NormFlat(_)
\* the normalised texts of a queue, concatenated in queue order
NormFlat(q) == IF q = <<>> THEN <<>> ELSE Normalize(Head(q).s) \o NormFlat(Tail(q))

\* the last n characters of s
Suffix(s, n) == SubSeq(s, Len(s) - n + 1, Len(s))

RECURSIVE Width(_, _)
\* sum of the advances of the characters t in the span font f
Width(f, t) == IF t = <<>> THEN 0 ELSE HAdv(f, Head(t)) + Width(f, Tail(t))

\* the step under way ends the call because the next line is below the box
VerticalStop == pc = "chars" /\ pc' = "done"

\* the character under the cursor overflows the line
AtOverflow ==
    /\ pc = "chars" /\ ci < Len(span) /\ ch # "\n"
    /\ Overflows(x, HAdv(font, ch), bounding_box)

\* number of normalised input characters the naive call has not consumed
NaiveUnconsumed == (Len(span) - ci) + Len(NormFlat(text))

\* number of normalised input characters the natural call has not placed:
\* from the break point on when the step rewinds, else from the cursor on
NaturalUnplaced ==
    IF AtOverflow /\ last_break # <<>>
    THEN (Len(span) - last_break[1].input_char_idx)
         + Len(NormFlat(Drain(text, last_break[1].input_idx + 1)))
    ELSE (Len(span) - ci)
         + Len(NormFlat(Drain(text, input_idx + (IF pc = "chars" THEN 1 ELSE 0))))

\* ---------------------------------------------------------------- claims
\* C1: when layout_text_naive returns, the texts left in the queue,
\* concatenated, are exactly the suffix of the normalised input that starts
\* at the first character the call did not consume.
C1_NaiveLeftoverExact ==
    [][(algo = "naive" /\ pc # "done" /\ pc' = "done")
          => NormFlat(text') = Suffix(NormFlat(input), NaiveUnconsumed)]_vars

\* C2: when layout_text_natural returns, the texts left in the queue,
\* concatenated, are exactly the part of the normalised input that was not
\* placed, once and in order.
C2_NaturalLeftoverExact ==
    [][(algo = "natural" /\ pc # "done" /\ pc' = "done")
          => NormFlat(text') = Suffix(NormFlat(input), NaturalUnplaced)]_vars

\* every run on the page ends left of the right edge of the box
RunsInsideRight ==
    \A i \in DOMAIN page :
        page[i].coords[1] + Width(page[i].font, page[i].text) < bounding_box.x2

\* every glyph of the input fits on a continuation line, which starts at
\* start.x + wrap_offset
GlyphsFit ==
    \A i \in DOMAIN input :
        \A j \in DOMAIN Normalize(input[i].s) :
            Normalize(input[i].s)[j] # "\n"
                => start[1] + wrap_offset + HAdv(input[i].font, Normalize(input[i].s)[j])
                       < bounding_box.x2

RunsAboveBottom ==
    \A i \in DOMAIN page :
        page[i].coords[2] >= bounding_box.y1 + Descent(page[i].font)

\* the step rewinds to the recorded break point
AtRewind == algo = "natural" /\ AtOverflow /\ last_break # <<>>

\* index in span of the first character a stopping step leaves unplaced
StopFrom == IF AtRewind THEN last_break[1].input_char_idx ELSE ci

\* the text of the current run that is in front of the stopping point
StopRunText ==
    IF AtRewind
    THEN IF last_break[1].span_idx = Len(spans)
         THEN Take(current_span.text, last_break[1].char_idx)
         ELSE <<>>
    ELSE current_span.text

\* on a stop for lack of vertical room the current run is on the page and the
\* rest of the current chunk is at the front of the queue
StopKeepsRemainder ==
    /\ text' # <<>>
    /\ Head(text').s = Skip(span, StopFrom)
    /\ StopRunText # <<>> =>
          \E i \in DOMAIN page' :
              /\ page'[i].text = StopRunText
              /\ page'[i].coords = current_span.coords

\* C4: every run appended to the page has run.y >= bounding_box.y1 + descent
\* of its font; when a move to a new line gives y < y1 + descent the current
\* run is pushed, the unconsumed remainder goes back to the front of the
\* queue and the call stops.
C4_NoVerticalOverflow ==
    [][(pc # "done" /\ pc' = "done")
          => /\ RunsAboveBottom'
             /\ VerticalStop => StopKeepsRemainder]_vars

\* the step rewinds and layout goes on below
RewindGoesOn == AtRewind /\ pc' = "loop"

\* the character in front of the break point: the one before the resume
\* offset in the chunk, or at a chunk boundary the last one of the run the
\* break point names
BeforeBreak ==
    LET bp == last_break[1]
    IN  IF bp.input_char_idx > 0 THEN <<span[bp.input_char_idx]>>
        ELSE IF bp.span_idx + 1 \in DOMAIN spans /\ bp.char_idx > 0
                  /\ bp.char_idx <= Len(spans[bp.span_idx + 1].text)
             THEN <<spans[bp.span_idx + 1].text[bp.char_idx]>>
             ELSE <<>>

\* the character the next line starts with after the rewind
AfterBreak ==
    LET bp == last_break[1]
    IN  IF bp.input_char_idx < Len(span) THEN <<span[bp.input_char_idx + 1]>> ELSE <<>>

\* the break of the step falls between two non-whitespace characters
BreakDividesWord ==
    /\ BeforeBreak # <<>> /\ ~IsWhitespace(BeforeBreak[1])
    /\ AfterBreak # <<>> /\ ~IsWhitespace(AfterBreak[1])

\* after the rewind no run behind the run of the break point is left, and the
\* chunk to lay out next is the current chunk from the break point on, less
\* leading blanks, on the next line
BreaksAtBreakPoint ==
    LET bp   == last_break[1]
        rest == Skip(span, SkipWhitespace(span, bp.input_char_idx))
    IN  /\ y' = y - LineGap(font)
        /\ x' = start[1] + wrap_offset
        /\ bp.input_idx = input_idx
        /\ rest # <<>> => /\ input_idx' < Len(text')
                          /\ text'[input_idx' + 1].s = rest
        /\ Len(spans') <= bp.span_idx + 1

\* C5 as claimed: when a line overflows and a break point was recorded on it,
\* the line is broken at the break point, so no maximal run of non-whitespace
\* input characters is divided between two lines.
C5_WordIntegrity ==
    [][RewindGoesOn => (BreaksAtBreakPoint /\ ~BreakDividesWord)]_vars

\* C5 as amended: the line is broken at the break point, which is right after
\* a placed whitespace character or at a chunk boundary, so no maximal run of
\* non-whitespace characters of one chunk is divided between two lines.
C5_WordIntegrityInChunk ==
    [][RewindGoesOn =>
          /\ BreaksAtBreakPoint
          /\ last_break[1].input_char_idx > 0 => ~BreakDividesWord]_vars

\* C5 witness: natural layout of " aa" in a box two glyphs wide returned
\* with "aa" whole on the second line.
C5_Witness ==
    /\ algo = "natural" /\ pc = "done" /\ text = <<>>
    /\ Len(input) = 1 /\ input[1].s = <<" ", "a", "a">>
    /\ \E i \in DOMAIN page :
        /\ page[i].text = <<"a", "a">>
        /\ page[i].coords[2] = start[2] - LineGap(page[i].font)

\* the step breaks the line at the character under the cursor and goes on
ForcedBreakGoesOn ==
    /\ AtOverflow /\ pc' = "chars"
    /\ algo = "natural" => last_break = <<>>

\* Len(Normalize(s)): a tab becomes TABSIZE characters, a "\r\n" one
NormLen(s) ==
    Len(s)
    + (TABSIZE - 1) * Cardinality({i \in DOMAIN s : s[i] = "\t"})
    - Cardinality({i \in DOMAIN s : s[i] = "\r" /\ i < Len(s) /\ s[i + 1] = "\n"})

RECURSIVE QueueLen(_)
\* Len(NormFlat(q))
QueueLen(q) == IF q = <<>> THEN 0 ELSE NormLen(Head(q).s) + QueueLen(Tail(q))

\* number of normalised input characters the cursor has not passed
CharsLeft ==
    (Len(span) - ci)
    + (IF algo = "naive" THEN QueueLen(text)
       ELSE QueueLen(Drain(text, input_idx + (IF pc = "chars" THEN 1 ELSE 0))))

\* a step of the call is possible: at the head of 'inputspans always, at the
\* head of 'chars unless the font has no glyph to render the character with
CanStep ==
    \/ pc = "loop"
    \/ pc = "chars" /\ (ci >= Len(span) \/ ch = "\n" \/ ~NoQuestionMark(font, ch))

\* number of chunks not yet laid out to their end
ChunksLeft ==
    IF algo = "naive" THEN Len(text) + (IF pc = "chars" THEN 1 ELSE 0)
    ELSE Len(text) - input_idx

\* more than 3 * CharsLeft + 2 * ChunksLeft + 2 can ever be
MeasureBase == 3 * TABSIZE * MaxLen + 2 * MaxChunks + 3

\* variant of the two loops: the height left above the lowest baseline a line
\* can have, then the input left, then the place in the loop
Measure ==
    IF pc = "done" THEN 0
    ELSE (y - bounding_box.y1 + 2) * MeasureBase
         + 3 * CharsLeft + 2 * ChunksLeft + (IF pc = "loop" THEN 2 ELSE 1)

\* C6: every call of layout_text_naive and layout_text_natural returns: until
\* it has returned a step is always possible, every step lowers a variant that
\* is never negative, every forced break that goes on consumes the character
\* under the cursor and every rewind that goes on resumes on a lower line.
C6_Terminates ==
    /\ [](pc = "done" \/ CanStep)
    /\ [][/\ Measure' < Measure
          /\ Measure' >= 0
          /\ ForcedBreakGoesOn => (ci' = ci + 1 /\ span' = span)
          /\ RewindGoesOn => y' < y]_vars

\* C6 witness: a call returned after a forced break in a box no wider than
\* one glyph.
C6_Witness ==
    /\ pc = "done" /\ ~GlyphsFit
    /\ Len(page) >= 2
    /\ page[2].coords[2] < page[1].coords[2]

\* C7: layout_text_spring terminates for every finite text, also when a word
\* is pushed back to the queue and when a single word is wider than the box.
C7_SpringTerminates == <>(pc = "done")

\* the spans the step adds to the page
Emitted == SubSeq(page', Len(page) + 1, Len(page'))

\* the fraction p is the number v
FracIs(p, v) == p.den > 0 /\ p.num = v * p.den

\* C8: for every line that layout_text_spring emits with n >= 2 words,
\* (sum of the word widths) + (n - 1) * spacing = max_width, the first word
\* starts at x1 and the last word ends at x2.
C8_SpringJustified ==
    [][(algo = "spring" /\ pc = "emit" /\ Len(line) >= 2) =>
          LET n    == Len(line)
              sp   == space_width'
              last == Emitted[n].coords[1]
          IN  /\ Len(Emitted) = n
              /\ sp.den > 0
              /\ words_width * sp.den + (n - 1) * sp.num = max_width * sp.den
              /\ FracIs(Emitted[1].coords[1], bounding_box.x1)
              /\ FracIs(Frac(last.num + line[n].width * last.den, last.den),
                        bounding_box.x2)]_vars

\* C8 witness: a text of four words was laid out on two lines of two words,
\* the second one, the final line of the text, ending at x2 too.
C8_Witness ==
    /\ algo = "spring" /\ pc = "done" /\ Len(page) = 4
    /\ page[1].coords[2] = page[2].coords[2]
    /\ page[3].coords[2] = page[4].coords[2]
    /\ page[3].coords[2] < page[1].coords[2]
    /\ FracIs(Frac(page[4].coords[1].num
                     + width_of_text(page[4].text, page[4].font) * page[4].coords[1].den,
                   page[4].coords[1].den),
              bounding_box.x2)

\* C9: when a finalized line holds exactly one word no spacing is computed:
\* the division by (wordCount - 1) is never evaluated with wordCount = 1.
C9_NoDivisionByZero == space_width.den # 0

\* the texts of the runs of a page, in the order they were added
RunTexts(pg) == [i \in DOMAIN pg |-> pg[i].text]

RECURSIVE Flat(_)
\* the spans of the pages pp, in order
Flat(pp) == IF pp = <<>> THEN <<>> ELSE Head(pp) \o Flat(Tail(pp))

\* C10: paginating a text appends, over all pages in order, the same sequence
\* of run texts as one call over the text in a box of the same width that is
\* tall enough for all of it.
C10_RelayoutIdempotent ==
    (phase = "reference" /\ pc = "done") => RunTexts(Flat(pages)) = RunTexts(page)

\* ============================================================ Font::write
\* A font is loaded from bytes (Font::load) and later written into the PDF
\* (Font::write: write_cid, then write_to_unicode); one action per call and
\* per pass through a loop body.  A face is
\*   [parses, has_cmap, units_per_em, subtables, hor_advance]
\* where subtables is the cmap table's list of [unicode, map] and map sends
\* code points to glyph ids.  An Option is <<>> for None and <<v>> for Some.

\* subtables of a face of the exhaustive family
MaxSubtables == 2

\* a block of the ToUnicode map is closed when it holds this many entries
BlockMax == 100

\* the em sizes of the faces
EmSizes == {1000, 2000}

\* code points and glyph ids of the exhaustive family
FontCodePoints == {97, 98}
FontGlyphs == {0, 1, 2, 256}

\* char::try_from(codepoint).is_ok(): not a surrogate, not above U+10FFFF
IsChar(cp) == cp >= 0 /\ cp <= 1114111 /\ ~(cp >= 55296 /\ cp <= 57343)

SetMin(S) == CHOOSE m \in S : \A o \in S : m <= o
SetMax(S) == CHOOSE m \in S : \A o \in S : m >= o

\* the elements of a finite set of numbers in ascending order
SortSet(S) ==
    [i \in 1..Cardinality(S) |-> CHOOSE e \in S : Cardinality({o \in S : o < e}) = i - 1]

\* the advance of glyph g in font units, in every face of the model
AdvanceOf(g) == IF g = 2 THEN 600 ELSE 500

\* the glyphs a list of subtables mentions, and glyph 0
GlyphsOf(sts) == {0} \cup UNION {{sts[i].map[cp] : cp \in DOMAIN sts[i].map} : i \in DOMAIN sts}

MakeFace(em, sts) ==
    [parses |-> TRUE, has_cmap |-> TRUE, units_per_em |-> em, subtables |-> sts,
     hor_advance |-> [g \in GlyphsOf(sts) |-> AdvanceOf(g)]]

Subtables ==
    [unicode : BOOLEAN, map : UNION {[D -> FontGlyphs] : D \in SUBSET FontCodePoints}]

\* every face with up to MaxSubtables subtables over the small alphabet
SmallFaces ==
    {MakeFace(em, sts) : em \in EmSizes, sts \in SeqsUpTo(Subtables, MaxSubtables)}

\* one Unicode subtable sending n consecutive code points to the glyphs
\* first, first + 1, ...
RunFace(em, first, n) ==
    MakeFace(em, <<[unicode |-> TRUE,
                    map |-> [cp \in 1000..(1000 + n - 1) |-> first + (cp - 1000)]]>>)

\* faces whose glyph ids fill a block of the ToUnicode map, cross a high
\* byte, or start above the first high byte
LongFaces == {RunFace(1000, 1, 101), RunFace(2000, 200, 105), RunFace(1000, 256, 101)}

\* a subtable that lists a surrogate code point beside a character
SurrogateFace ==
    MakeFace(1000, <<[unicode |-> TRUE, map |-> (55296 :> 1) @@ (97 :> 2)]>>)

\* a face without a cmap table
NoCmapFace == [MakeFace(1000, <<>>) EXCEPT !.has_cmap = FALSE]

\* bytes OwnedFace::from_vec cannot parse
Garbage == [MakeFace(1000, <<>>) EXCEPT !.parses = FALSE]

Faces == SmallFaces \cup LongFaces \cup {SurrogateFace, NoCmapFace, Garbage}

\* .filter(|table| table.is_unicode())
UnicodeSubtables(f) == SelectSeq(f.subtables, LAMBDA st : st.unicode)

\* subtable.glyph_index(codepoint)
subtable_glyph_index(st, cp) == IF cp \in DOMAIN st.map THEN <<st.map[cp]>> ELSE <<>>

RECURSIVE FirstIndex(_, _)
FirstIndex(sts, cp) ==
    IF sts = <<>> THEN <<>>
    ELSE IF subtable_glyph_index(Head(sts), cp) # <<>>
         THEN subtable_glyph_index(Head(sts), cp)
         ELSE FirstIndex(Tail(sts), cp)

\* self.face.as_face_ref().glyph_index(ch): the first Unicode subtable that
\* has the character decides
face_glyph_index(f, cp) == FirstIndex(UnicodeSubtables(f), cp)

\* the characters through which subtable st reaches glyph g
Reaches(st, g) == {cp \in DOMAIN st.map : IsChar(cp) /\ st.map[cp] = g}

\* Font::glyph_ids: glyph id -> char over the Unicode subtables, glyph 0
\* left out, the first character inserted for an id kept (or_insert)
glyph_ids(f) ==
    LET sts == UnicodeSubtables(f)
        reached == {g \in GlyphsOf(sts) : g > 0 /\ \E i \in DOMAIN sts : Reaches(sts[i], g) # {}}
    IN  [g \in reached |->
            LET i == SetMin({j \in DOMAIN sts : Reaches(sts[j], g) # {}})
            IN  SetMin(Reaches(sts[i], g))]

\* Font::glyphs_sizing: id -> (char, h_advance), the advance being that of
\* the glyph the face gives for the char
glyphs_sizing(f, idmap) ==
    LET sized == {id \in DOMAIN idmap :
                    /\ face_glyph_index(f, idmap[id]) # <<>>
                    /\ face_glyph_index(f, idmap[id])[1] \in DOMAIN f.hor_advance}
    IN  [id \in sized |->
            [char |-> idmap[id], width |-> f.hor_advance[face_glyph_index(f, idmap[id])[1]]]]

\* width as f32 * scaling, scaling = 1000.0 / units_per_em
ScaledWidth(f, w) == (w * 1000) \div f.units_per_em

\* widths_counts: width -> number of glyphs that have it
widths_counts(aug) ==
    [w \in {aug[id].width : id \in DOMAIN aug} |->
        Cardinality({id \in DOMAIN aug : aug[id].width = w})]

\* the local most_common_width: max_by_key with the width as the key
most_common_width(f, aug) ==
    IF DOMAIN widths_counts(aug) = {} THEN 1000
    ELSE ScaledWidth(f, SetMax(DOMAIN widths_counts(aug)))

\* the sorted Vec id_widths
IdWidths(f, aug) ==
    [i \in 1..Cardinality(DOMAIN aug) |->
        [cid |-> SortSet(DOMAIN aug)[i],
         width |-> ScaledWidth(f, aug[SortSet(DOMAIN aug)[i]].width)]]

\* widths.consecutive(start, ws)
Consecutive(ws, first, run) == Append(ws, [start |-> first, run |-> run])

\* the layout variables while a font is written or the document is edited
LayoutIdle(a) ==
    /\ algo = a
    /\ bounding_box = [x1 |-> 0, y1 |-> 0, x2 |-> 0, y2 |-> 0]
    /\ start = <<0, 0>>
    /\ wrap_offset = 0
    /\ input = <<>>
    /\ text = <<>>
    /\ page = <<>>
    /\ spans = <<>>
    /\ x = 0
    /\ y = 0
    /\ current_span = NoSpan
    /\ span = <<>>
    /\ ci = 0
    /\ input_idx = 0
    /\ last_break = <<>>
    /\ line_start_x = 0
    /\ words = <<>>
    /\ line = <<>>
    /\ words_width = 0
    /\ space_width = NoSpacing
    /\ pages = <<>>
    /\ phase = "single"

layout ==
    <<args, spring, book, text, page, spans, x, y, current_span, span, ci, input_idx,
      last_break, line_start_x>>

InitFont ==
    \E f \in Faces :
        /\ LayoutIdle("font")
        /\ font_face = f
        /\ id_widths = <<>>
        /\ pos = 0
        /\ start_cid = 0
        /\ current_widths = <<>>
        /\ widths = <<>>
        /\ default_width = 0
        /\ ids = <<>>
        /\ cmap_blocks = <<>>
        /\ current_block = <<>>
        /\ high_byte = 0
        /\ call = <<>>
        /\ result = <<>>
        /\ page_order = <<>>
        /\ doc_pages = <<>>
        /\ WritingIdle
        /\ pc = "bytes"

\* Font::load: Err when the bytes do not parse, Ok(Font { face }) otherwise
FontLoad ==
    /\ algo = "font" /\ pc = "bytes"
    /\ pc' = IF font_face.parses THEN "loaded" ELSE "rejected"
    /\ UNCHANGED <<layout, writing, fontw, api, doc>>

\* a layout call sets a character in the loaded font: its glyph, else that
\* of U+FFFD, else that of '?', else the failed expect
FontInLayout ==
    /\ algo = "font" /\ pc = "loaded"
    /\ \E cp \in FontCodePoints :
        LET own == face_glyph_index(font_face, cp)
            rep == face_glyph_index(font_face, 65533)
            qm  == face_glyph_index(font_face, 63)
        IN  /\ call' = <<"layout", cp>>
            /\ result' = IF own # <<>> THEN own ELSE IF rep # <<>> THEN rep ELSE qm
            /\ pc' = IF result' = <<>> THEN "panic" ELSE "loaded"
    /\ UNCHANGED <<layout, writing, fontw, doc>>

\* write_cid up to the loop over id_widths: the run of glyph 0, the sorted
\* id_widths, and the first of them taken; the two expect()s
WriteCidEntry ==
    /\ algo = "font" /\ pc = "loaded"
    /\ IF ~font_face.has_cmap
       THEN /\ pc' = "panic"
            /\ UNCHANGED <<widths, id_widths, start_cid, current_widths, pos>>
       ELSE LET aug == glyphs_sizing(font_face, glyph_ids(font_face))
            IN  /\ widths' = Consecutive(<<>>, 0, <<1000>>)
                /\ id_widths' = IdWidths(font_face, aug)
                /\ IF id_widths' = <<>>
                   THEN /\ pc' = "panic"
                        /\ UNCHANGED <<start_cid, current_widths, pos>>
                   ELSE /\ start_cid' = id_widths'[1].cid
                        /\ current_widths' = <<id_widths'[1].width>>
                        /\ pos' = 2
                        /\ pc' = "widths"
    /\ UNCHANGED <<layout, writing, api, doc, font_face, default_width, ids, cmap_blocks,
                   current_block, high_byte>>

\* for (cid, width) in id_widths.into_iter().skip(1)
WriteCidLoop ==
    /\ algo = "font" /\ pc = "widths" /\ pos <= Len(id_widths)
    /\ LET cid == id_widths[pos].cid
       IN  IF cid - start_cid > Len(current_widths)
           THEN /\ widths' = Consecutive(widths, start_cid, current_widths)
                /\ start_cid' = cid
                /\ current_widths' = <<id_widths[pos].width>>
           ELSE /\ current_widths' = Append(current_widths, id_widths[pos].width)
                /\ UNCHANGED <<widths, start_cid>>
    /\ pos' = pos + 1
    /\ UNCHANGED <<layout, writing, api, doc, font_face, id_widths, default_width, ids, cmap_blocks,
                   current_block, high_byte, pc>>

\* after the loop: the last run, then cid_font.default_width
WriteCidReturn ==
    /\ algo = "font" /\ pc = "widths" /\ pos > Len(id_widths)
    /\ widths' = IF current_widths # <<>>
                 THEN Consecutive(widths, start_cid, current_widths) ELSE widths
    /\ default_width' =
         most_common_width(font_face, glyphs_sizing(font_face, glyph_ids(font_face)))
    /\ pc' = "cid"
    /\ UNCHANGED <<layout, writing, api, doc, font_face, id_widths, pos, start_cid, current_widths,
                   ids, cmap_blocks, current_block, high_byte>>

\* write_to_unicode up to the loop: ids sorted by glyph id
ToUnicodeEntry ==
    /\ algo = "font" /\ pc = "cid"
    /\ ids' = LET idmap == glyph_ids(font_face)
              IN  [i \in 1..Cardinality(DOMAIN idmap) |->
                      [id |-> SortSet(DOMAIN idmap)[i],
                       char |-> idmap[SortSet(DOMAIN idmap)[i]]]]
    /\ cmap_blocks' = <<>>
    /\ current_block' = <<>>
    /\ high_byte' = 0
    /\ pos' = 1
    /\ pc' = "blocks"
    /\ UNCHANGED <<layout, writing, api, doc, font_face, id_widths, start_cid, current_widths,
                   widths, default_width>>

\* (id >> 8) as u8
HighByte(id) == (id \div 256) % 256

\* for (id, ch) in ids.iter()
ToUnicodeLoop ==
    /\ algo = "font" /\ pc = "blocks" /\ pos <= Len(ids)
    /\ IF HighByte(ids[pos].id) # high_byte \/ Len(current_block) >= BlockMax
       THEN /\ cmap_blocks' = Append(cmap_blocks, current_block)
            /\ current_block' = <<ids[pos]>>
            /\ high_byte' = HighByte(ids[pos].id)
       ELSE /\ current_block' = Append(current_block, ids[pos])
            /\ UNCHANGED <<cmap_blocks, high_byte>>
    /\ pos' = pos + 1
    /\ UNCHANGED <<layout, writing, api, doc, font_face, id_widths, start_cid, current_widths,
                   widths, default_width, ids, pc>>

\* after the loop: the last block, and the blocks are written out
ToUnicodeReturn ==
    /\ algo = "font" /\ pc = "blocks" /\ pos > Len(ids)
    /\ cmap_blocks' = IF current_block # <<>>
                      THEN Append(cmap_blocks, current_block) ELSE cmap_blocks
    /\ pc' = "written"
    /\ UNCHANGED <<layout, writing, api, doc, font_face, id_widths, pos, start_cid, current_widths,
                   widths, default_width, ids, current_block, high_byte>>

NextFont ==
    \/ FontLoad
    \/ FontInLayout
    \/ WriteCidEntry
    \/ WriteCidLoop
    \/ WriteCidReturn
    \/ ToUnicodeEntry
    \/ ToUnicodeLoop
    \/ ToUnicodeReturn

SpecFont == InitFont /\ [][NextFont]_vars

\* ------------------------------------------------- claims on Font::write
\* write_cid has returned
CidWritten == algo = "font" /\ pc \in {"cid", "blocks", "written"}

\* the runs of the width table that cover glyph id g
Covering(g) ==
    {r \in DOMAIN widths : widths[r].start <= g /\ g < widths[r].start + Len(widths[r].run)}

\* the width a reader of the table finds for glyph id g
ReadBack(g) ==
    IF Covering(g) = {} THEN default_width
    ELSE LET r == SetMin(Covering(g)) IN widths[r].run[g - widths[r].start + 1]

\* C11: once write_cid has returned, every glyph id the Unicode subtables
\* reach reads back from the width table (its run, else the default width)
\* as its own advance scaled by 1000 / units_per_em, and no such glyph id is
\* covered by two runs
C11_WidthRoundTrip ==
    CidWritten =>
        \A g \in DOMAIN glyph_ids(font_face) :
            /\ Cardinality(Covering(g)) <= 1
            /\ g \in DOMAIN font_face.hor_advance
                 => ReadBack(g) = ScaledWidth(font_face, font_face.hor_advance[g])

\* C12: the default width write_cid gives is a most frequent scaled advance
\* among the glyphs of the character map: no other width occurs more often
C12_DefaultWidthIsMode ==
    CidWritten =>
        LET counts == widths_counts(glyphs_sizing(font_face, glyph_ids(font_face)))
        IN  \E w \in DOMAIN counts :
                /\ default_width = ScaledWidth(font_face, w)
                /\ \A o \in DOMAIN counts : counts[o] <= counts[w]

\* every block has at most BlockMax entries, all of one high byte
BlocksBounded(blocks) ==
    \A b \in DOMAIN blocks :
        /\ Len(blocks[b]) <= BlockMax
        /\ \A i, j \in DOMAIN blocks[b] :
              HighByte(blocks[b][i].id) = HighByte(blocks[b][j].id)

\* putting the next glyph id into the current block would make it longer
\* than BlockMax or mix two high bytes in it
WouldBreak ==
    \/ Len(current_block) + 1 > BlockMax
    \/ \E i \in DOMAIN current_block :
          HighByte(current_block[i].id) # HighByte(ids[pos].id)

\* C13: every block of write_to_unicode has at most 100 entries, all of one
\* high byte, and a pass of the loop closes the current block and starts a
\* new one exactly when the next glyph id would break one of the two
C13_BlockBound ==
    [][/\ BlocksBounded(cmap_blocks') /\ BlocksBounded(<<current_block'>>)
       /\ (pc = "blocks" /\ pos' = pos + 1)
             => (Len(cmap_blocks') = Len(cmap_blocks) + 1 <=> WouldBreak)]_vars

\* the face has a Unicode character-map subtable
HasUnicodeSubtable(f) == f.has_cmap /\ UnicodeSubtables(f) # <<>>

\* C16: a font without a Unicode character-map subtable never gets past
\* Font::load: it is still unloaded bytes, or load has rejected it
C16_NoUnicodeFailsAtLoad ==
    (algo = "font" /\ ~HasUnicodeSubtable(font_face)) => pc \in {"bytes", "rejected"}

\* ------------------------------------------------ claims on the naive break
\* the cursor of layout_text_naive is on a character other than '\n'
NaiveAtChar == algo = "naive" /\ pc = "chars" /\ ci < Len(span) /\ ch # "\n"

\* the step ends the line before the character under the cursor: the run is
\* closed without it, and the next line starts with it, as a new run at the
\* wrap position one line down or, when that line is below the box, as the
\* first character handed back
NaiveBreaksBefore ==
    /\ Len(spans') > Len(spans)
    /\ spans'[Len(spans) + 1] = current_span
    /\ y' = y - LineGap(font)
    /\ \/ /\ pc' = "chars"
          /\ current_span'.text = <<ch>>
          /\ current_span'.coords = <<start[1] + wrap_offset, y'>>
       \/ /\ pc' = "done"
          /\ text' # <<>>
          /\ Head(text').s # <<>>
          /\ Head(Head(text').s) = ch

\* the step puts the character under the cursor on the current line
NaiveStaysOnLine ==
    /\ current_span' = [current_span EXCEPT !.text = Append(@, ch)]
    /\ y' = y
    /\ spans' = spans

\* the doc comment's example, laid out by layout_text_naive to the end
ExampleDone(a) ==
    /\ algo = a /\ pc = "done"
    /\ input = <<Chunk(ExampleText, 1, ExampleFont)>>
    /\ bounding_box = ExampleBox

\* C14: layout_text_naive ends the line exactly before the first character
\* with x + advance >= bounding_box.x2, be it inside a word or not, and the
\* next line starts with that character; "asdf asdf" with six characters to
\* a line comes out as "asdf a" and "sdf", which is not what
\* layout_text_natural makes of it
C14_NaiveExactColumnBreak ==
    /\ [][NaiveAtChar =>
            IF x + HAdv(font, ch) >= bounding_box.x2
            THEN NaiveBreaksBefore ELSE NaiveStaysOnLine]_vars
    /\ [](ExampleDone("naive") =>
            RunTexts(page) = <<SubSeq(ExampleText, 1, 6), SubSeq(ExampleText, 7, 9)>>)
    /\ [](ExampleDone("natural") =>
            RunTexts(page) # <<SubSeq(ExampleText, 1, 6), SubSeq(ExampleText, 7, 9)>>)

C14_Witness ==
    /\ ExampleDone("naive")
    /\ Len(page) = 2
    /\ page[1].text[5] = " "
    /\ page[2].coords = <<ExampleBox.x1, page[1].coords[2] - LineGap(ExampleFont)>>

\* =========================================================== library calls
\* The functions of the crate that compute a value from their arguments:
\* one action per function, the arguments drawn from the sets below, the
\* value returned kept in result.  A failed expect() ends the program.

\* characters of the texts width_of_text is called with; "\n" has no glyph
WidthChars == {"a", " ", "\n"}

\* characters of the longest text width_of_text is called with
MaxWidthLen == 4

\* the fonts and sizes width_of_text is called with
WidthFonts == {[id |-> i, size |-> s] : i \in DOMAIN fonts, s \in {2, 4}}

\* faces that have or lack a glyph for "a", for U+FFFD and for '?'
GlyphFaces ==
    {[Face EXCEPT !.cmap = [c \in D |-> CASE c = "a" -> 1 [] c = "FFFD" -> 2 [] c = "?" -> 3]] :
        D \in SUBSET {"a", "FFFD", "?"}}

\* the characters whose glyph is asked for
GlyphChars == {"a", "b"}

\* font.replacement_glyph_id()
replacement_glyph_id(face) == glyph_index(face, "FFFD")

\* render_text_spans: glyph_id(ch), else replacement_glyph_id(), else
\* glyph_id('?'); NoGlyph is the failed expect("font has '?' glyph")
ContentGlyph(face, c) ==
    IF glyph_id(face, c) # NoGlyph THEN glyph_id(face, c)
    ELSE IF replacement_glyph_id(face) # NoGlyph THEN replacement_glyph_id(face)
    ELSE glyph_id(face, "?")

\* layout_text of layout.rs: glyph_index(ch), else that of U+FFFD; NoGlyph is
\* the failed expect("Font has a replacement glyph")
LayoutTextGlyph(face, c) ==
    IF glyph_index(face, c) # NoGlyph THEN glyph_index(face, c)
    ELSE glyph_index(face, "FFFD")

\* the places where the glyph of a character to emit is looked up
GlyphSites == {"layout_text_naive", "layout_text_natural", "render_text_spans", "layout_text"}

GlyphAt(at, face, c) ==
    CASE at \in {"layout_text_naive", "layout_text_natural"} -> RenderGlyph(face, c)
      [] at = "render_text_spans" -> ContentGlyph(face, c)
      [] at = "layout_text" -> LayoutTextGlyph(face, c)

\* sums, differences and integer multiples of fractions
FracAdd(p, q) ==
    IF p.den = q.den THEN Frac(p.num + q.num, p.den)
    ELSE Frac(p.num * q.den + q.num * p.den, p.den * q.den)
FracSub(p, q) ==
    IF p.den = q.den THEN Frac(p.num - q.num, p.den)
    ELSE Frac(p.num * q.den - q.num * p.den, p.den * q.den)
FracMul(p, n) == Frac(p.num * n, p.den)

\* faces of several em sizes and vertical metrics; the first of each set is
\* the face of the example: 1000 units per em, ascender 800, descender -200,
\* line gap 0
MetricFaces ==
    {[Face EXCEPT !.units_per_em = u, !.ascender = a, !.descender = d, !.line_gap = g] :
        u \in {1000, 2048}, a \in {800, 1900}, d \in {-200, -500}, g \in {0, 90}}

\* the sizes the metrics are asked at
MetricSizes == {2, 12, 16}

\* scaling = size / units_per_em
scaling(face, size) == Frac(size, face.units_per_em)

\* Font::ascent, Font::descent, Font::leading
ascent(face, size) == FracMul(scaling(face, size), face.ascender)
descent(face, size) == FracMul(scaling(face, size), face.descender)
leading(face, size) == FracMul(scaling(face, size), face.line_gap)

\* line_height with the descent added
line_height_sum(face, size) ==
    FracAdd(FracAdd(leading(face, size), ascent(face, size)), descent(face, size))

\* Font::line_height: leading + ascent - descent
line_height(face, size) ==
    FracSub(FracAdd(leading(face, size), ascent(face, size)), descent(face, size))

\* baseline_offset(font, size) of layout/text.rs: Pt(0.) - ascent
baseline_offset_pt(face, size) == FracSub(Frac(0, 1), ascent(face, size))

Metrics == {"ascent", "descent", "leading", "line_height", "baseline_offset"}

Metric(fn, face, size) ==
    CASE fn = "ascent" -> ascent(face, size)
      [] fn = "descent" -> descent(face, size)
      [] fn = "leading" -> leading(face, size)
      [] fn = "line_height" -> line_height(face, size)
      [] fn = "baseline_offset" -> baseline_offset_pt(face, size)

\* page sizes are (width, height) in points, each an exact fraction

\* Pt(inches * 72.0), the inches given in tenths
Inches(tenths) == Frac(tenths * 72, 10)

\* Pt(mm * 72.0 / 25.4)
Millimetres(mm) == Frac(mm * 720, 254)

\* the page-size constants of the pagesize module (pagesize.rs, and the same
\* values in page.rs)
PageSizes ==
    [LETTER       |-> <<Inches(85), Inches(110)>>,
     HALF_LETTER  |-> <<Inches(55), Inches(85)>>,
     JUNIOR_LEGAL |-> <<Inches(50), Inches(80)>>,
     LEGAL        |-> <<Inches(85), Inches(130)>>,
     TABLOID      |-> <<Inches(110), Inches(170)>>,
     LEDGER       |-> <<Inches(170), Inches(110)>>,
     ANSI_A       |-> <<Inches(85), Inches(110)>>,
     ANSI_B       |-> <<Inches(110), Inches(170)>>,
     ANSI_C       |-> <<Inches(170), Inches(220)>>,
     ANSI_D       |-> <<Inches(220), Inches(340)>>,
     ANSI_E       |-> <<Inches(340), Inches(440)>>,
     FOLIO        |-> <<Inches(120), Inches(190)>>,
     QUARTO       |-> <<Inches(95), Inches(120)>>,
     OCTAVO       |-> <<Inches(60), Inches(90)>>,
     A0           |-> <<Millimetres(841), Millimetres(1189)>>,
     A1           |-> <<Millimetres(594), Millimetres(841)>>,
     A2           |-> <<Millimetres(420), Millimetres(594)>>,
     A3           |-> <<Millimetres(297), Millimetres(420)>>,
     A4           |-> <<Millimetres(210), Millimetres(297)>>,
     A5           |-> <<Millimetres(148), Millimetres(210)>>,
     A6           |-> <<Millimetres(105), Millimetres(148)>>]

\* Page::new(size, None): the media box is the size, the margins are 0 pt
NewPage(size) ==
    [media_box   |-> [x1 |-> Frac(0, 1), y1 |-> Frac(0, 1), x2 |-> size[1], y2 |-> size[2]],
     content_box |-> [x1 |-> Frac(0, 1), y1 |-> Frac(0, 1), x2 |-> size[1], y2 |-> size[2]]]

InitLibrary ==
    /\ LayoutIdle("library")
    /\ OthersIdle
    /\ pc = "ready"

\* the glyph of a character about to be emitted is looked up
CallGlyph ==
    /\ algo = "library" /\ pc = "ready"
    /\ \E at \in GlyphSites, face \in GlyphFaces, c \in GlyphChars :
        /\ call' = <<at, face, c>>
        /\ result' = GlyphAt(at, face, c)
        /\ pc' = IF result' = NoGlyph THEN "panic" ELSE "ready"
    /\ UNCHANGED <<layout, writing, fontw, doc>>

\* width_of_text(text, font, size)
CallWidthOfText ==
    /\ algo = "library" /\ pc = "ready"
    /\ \E t \in SeqsUpTo(WidthChars, MaxWidthLen), f \in WidthFonts :
        /\ call' = <<"width_of_text", t, f>>
        /\ result' = width_of_text(t, f)
    /\ UNCHANGED <<layout, writing, fontw, doc, pc>>

\* font.ascent(size), .descent(size), .leading(size), .line_height(size) and
\* baseline_offset(font, size)
CallMetric ==
    /\ algo = "library" /\ pc = "ready"
    /\ \E fn \in Metrics, face \in MetricFaces, size \in MetricSizes :
        /\ call' = <<fn, face, size>>
        /\ result' = Metric(fn, face, size)
    /\ UNCHANGED <<layout, writing, fontw, doc, pc>>

\* Page::new(size, None) with one of the page-size constants
CallPageNew ==
    /\ algo = "library" /\ pc = "ready"
    /\ \E name \in DOMAIN PageSizes :
        /\ call' = <<"Page::new", name>>
        /\ result' = NewPage(PageSizes[name])
    /\ UNCHANGED <<layout, writing, fontw, doc, pc>>

NextLibrary == CallGlyph \/ CallWidthOfText \/ CallMetric \/ CallPageNew

SpecLibrary == InitLibrary /\ [][NextLibrary]_vars

\* ------------------------------------------------ claims on library calls
\* the last call looked a glyph up
GlyphCalled == algo = "library" /\ call # <<>> /\ call[1] \in GlyphSites

\* C15: the glyph of a character that is emitted is its own glyph, else the
\* glyph of U+FFFD, else the glyph of '?'; the lookup fails fatally only when
\* all three are missing, and never when the font has a '?' glyph
C15_FallbackChain ==
    GlyphCalled =>
        LET own == glyph_index(call[2], call[3])
            rep == glyph_index(call[2], "FFFD")
            qm  == glyph_index(call[2], "?")
        IN  /\ result = IF own # NoGlyph THEN own ELSE IF rep # NoGlyph THEN rep ELSE qm
            /\ pc = "panic" <=> (own = NoGlyph /\ rep = NoGlyph /\ qm = NoGlyph)
            /\ qm # NoGlyph => pc # "panic"

\* the last call was width_of_text
WidthCalled == algo = "library" /\ call # <<>> /\ call[1] = "width_of_text"

\* the characters of t that have a glyph in font f
WithGlyphs(t, f) == SelectSeq(t, LAMBDA c : glyph_id(fonts[f.id], c) # NoGlyph)

\* C17: the width of a text is never negative, it is the sum of the widths
\* of the two parts of the text wherever the text is cut, and a character
\* without a glyph adds exactly nothing to it
C17_WidthAdditive ==
    WidthCalled =>
        LET t == call[2]
            f == call[3]
        IN  /\ result >= 0
            /\ \A i \in 0..Len(t) :
                  result = width_of_text(SubSeq(t, 1, i), f)
                           + width_of_text(SubSeq(t, i + 1, Len(t)), f)
            /\ result = width_of_text(WithGlyphs(t, f), f)
            /\ WithGlyphs(t, f) = <<>> => result = 0

C17_Witness ==
    /\ WidthCalled
    /\ Len(call[2]) = MaxWidthLen
    /\ call[2][1] = "a" /\ call[2][2] = "\n" /\ call[2][3] = " "
    /\ call[3].id = 2
    /\ result > 0

\* the last call asked for metric fn
MetricCalled(fn) == algo = "library" /\ call # <<>> /\ call[1] = fn

\* p is v * size / units_per_em of the call
IsScaled(p, v) == p.den # 0 /\ p.num * call[2].units_per_em = v * call[3] * p.den

\* the call is on the example: 1000 units per em, ascender 800, descender
\* -200, line gap 0, at size 16
OnExample ==
    /\ call[2].units_per_em = 1000 /\ call[2].ascender = 800
    /\ call[2].descender = -200 /\ call[2].line_gap = 0
    /\ call[3] = 16

\* C18: ascent, descent and leading are size / units_per_em times the
\* ascender, the descender and the line gap; line_height is leading + ascent
\* - descent and baseline_offset is -ascent; on the example baseline_offset
\* is -12.8 and line_height is 16
C18_MetricScaling ==
    /\ MetricCalled("ascent") => IsScaled(result, call[2].ascender)
    /\ MetricCalled("descent") => IsScaled(result, call[2].descender)
    /\ MetricCalled("leading") => IsScaled(result, call[2].line_gap)
    /\ MetricCalled("line_height") =>
          /\ IsScaled(result, call[2].line_gap + call[2].ascender - call[2].descender)
          /\ OnExample => FracIs(result, 16)
    /\ MetricCalled("baseline_offset") =>
          /\ IsScaled(result, 0 - call[2].ascender)
          /\ OnExample => (result.den > 0 /\ 10 * result.num = (0 - 128) * result.den)

C18_Witness ==
    /\ MetricCalled("line_height") /\ OnExample
    /\ FracIs(result, 16)

\* C20: every page-size constant of the pagesize module is portrait: a page
\* made with it is at most as wide as it is high
C20_PageSizesPortrait ==
    (algo = "library" /\ call # <<>> /\ call[1] = "Page::new") =>
        LET w == result.media_box.x2
            h == result.media_box.y2
        IN  w.den > 0 /\ h.den > 0 /\ w.num * h.den <= h.num * w.den

\* =============================================================== Document
\* pages a document is given
MaxDocPages == 4

\* the sizes of the pages put into the document
DocSizes == {"LETTER", "A4"}

\* an Id<Page> that is not of this document's arena
ForeignId == 0

\* the ids in a page order
Range(s) == {s[i] : i \in DOMAIN s}

\* Document::index_of_page: the 0-based index of the first place of p
index_of_page(order, p) ==
    IF p \in Range(order)
    THEN <<SetMin({i \in DOMAIN order : order[i] = p}) - 1>>
    ELSE <<>>

\* Document::id_of_page_index: page_order.get(page_index).copied()
id_of_page_index(order, i) == IF i < Len(order) THEN <<order[i + 1]>> ELSE <<>>

\* Vec::insert that pushes instead
InsertAtEnd(s, i, v) == Append(s, v)

\* Vec::insert(index, element), index 0-based
Insert(s, i, v) == SubSeq(s, 1, i) \o <<v>> \o SubSeq(s, i + 1, Len(s))

\* the body shared by insert_page_before_id (shift 0) and
\* insert_page_after_id (shift 1): page_order once the new id is in
Inserted(order, id, ref, shift) ==
    IF index_of_page(order, ref) # <<>>
    THEN IF index_of_page(order, ref)[1] + shift > Len(order)
         THEN Append(order, id)
         ELSE Insert(order, index_of_page(order, ref)[1] + shift, id)
    ELSE Append(order, id)

InitDocument ==
    /\ LayoutIdle("document")
    /\ OthersIdle
    /\ pc = "ready"

\* self.pages.alloc(page): the id is the page's place in the arena
Alloc(name) ==
    /\ Len(doc_pages) < MaxDocPages
    /\ doc_pages' = Append(doc_pages, NewPage(PageSizes[name]))
    /\ result' = Len(doc_pages) + 1

\* Document::add_page
AddPage ==
    /\ algo = "document"
    /\ \E name \in DocSizes : Alloc(name)
    /\ page_order' = Append(page_order, result')
    /\ call' = <<"add_page">>
    /\ UNCHANGED <<layout, writing, fontw, pc>>

\* Document::insert_page_before_id
InsertPageBeforeId ==
    /\ algo = "document"
    /\ \E name \in DocSizes : Alloc(name)
    /\ \E next \in Range(page_order) \cup {ForeignId} :
        /\ page_order' = Inserted(page_order, result', next, 0)
        /\ call' = <<"insert_page_before_id", next>>
    /\ UNCHANGED <<layout, writing, fontw, pc>>

\* Document::insert_page_after_id
InsertPageAfterId ==
    /\ algo = "document"
    /\ \E name \in DocSizes : Alloc(name)
    /\ \E previous \in Range(page_order) \cup {ForeignId} :
        /\ page_order' = Inserted(page_order, result', previous, 1)
        /\ call' = <<"insert_page_after_id", previous>>
    /\ UNCHANGED <<layout, writing, fontw, pc>>

NextDocument == AddPage \/ InsertPageBeforeId \/ InsertPageAfterId

SpecDocument == InitDocument /\ [][NextDocument]_vars

\* ------------------------------------------------ claims on the Document
\* place (1-based) of id p in a page order that holds it
Place(order, p) == SetMin({i \in DOMAIN order : order[i] = p})

\* the call made by this step referred to a page of the document
RefInOrder == Len(call') = 2 /\ call'[2] \in Range(page_order)

\* C19: a page inserted before a page of the document sits directly before
\* it, one inserted after it sits directly after it; with an id that is not
\* in page_order, and with add_page, the page is appended.  The other pages
\* keep their order, and index_of_page(id_of_page_index(i)) = i for every
\* index of page_order.
C19_PageInsertionOrder ==
    [][algo = "document" =>
        /\ Len(page_order') = Len(page_order) + 1
        /\ SelectSeq(page_order', LAMBDA p : p # result') = page_order
        /\ (call'[1] = "insert_page_before_id" /\ RefInOrder)
              => Place(page_order', result') + 1 = Place(page_order', call'[2])
        /\ (call'[1] = "insert_page_after_id" /\ RefInOrder)
              => Place(page_order', result') = Place(page_order', call'[2]) + 1
        /\ (call'[1] = "add_page" \/ ~RefInOrder)
              => Place(page_order', result') = Len(page_order')
        /\ \A i \in 0..(Len(page_order') - 1) :
              /\ id_of_page_index(page_order', i) # <<>>
              /\ index_of_page(page_order', id_of_page_index(page_order', i)[1]) = <<i>>]_vars

C19_Witness ==
    /\ algo = "document"
    /\ Len(page_order) = MaxDocPages
    /\ call = <<"insert_page_before_id", page_order[3]>>
    /\ page_order[2] = result
    /\ page_order[1] > page_order[4]

\* ------------------------------------------------ natural rewind (C21)
\* the runs of the call at a rewind, in emission order: the runs already
\* pushed, then the run under construction that holds the characters placed
\* on the current line
RunsAtRewind == Append(spans, current_span)

\* the rewind kept the run the break point names, cut to the recorded length
KeepsBreakRun ==
    LET bp == last_break[1]
    IN  /\ bp.span_idx + 1 \in DOMAIN spans'
        /\ spans'[bp.span_idx + 1].text
               = Take(RunsAtRewind[bp.span_idx + 1].text, bp.char_idx)

\* the rewind left the text of every run in front of the break point's run
\* as it was
KeepsEarlierRuns ==
    \A i \in 1..last_break[1].span_idx :
        /\ i \in DOMAIN spans'
        /\ spans'[i].text = RunsAtRewind[i].text

\* C21: the rewind of layout_text_natural is a pure truncation at the break
\* point: the characters placed on the current line before the break point
\* stay, in the run the break point names cut to the recorded length, no run
\* behind it is left, and the text of every run emitted before it is unchanged.
C21_RewindPureTruncation ==
    [][AtRewind =>
          /\ KeepsBreakRun
          /\ KeepsEarlierRuns
          /\ Len(spans') = last_break[1].span_idx + 1]_vars

\* ------------------------------------------- line start after a rewind (C22)
\* the normalised characters the call goes on with after the step, in order:
\* 'inputspans takes them from the chunk at input_idx' on
ComesNext == NormFlat(Drain(text', input_idx'))

\* c is what the rewind skips: whitespace other than the newline
IsBlank(c) == IsWhitespace(c) /\ c # "\n"

\* C22: after a rewind of layout_text_natural that goes on, the first
\* character placed on the new line is not a whitespace character other than
\* "\n", also when the skipped whitespace reaches the end of its chunk and
\* the line goes on with the next chunk.
C22_NoLeadingSpace ==
    [][RewindGoesOn => (ComesNext # <<>> => ~IsBlank(ComesNext[1]))]_vars

\* ------------------------------------------------ break point lifetime (C23)
\* layout_text_natural is running: its locals, last_break among them, exist
NaturalRunning == algo = "natural" /\ pc \in {"loop", "chars"}

\* the runs of the call so far: the runs pushed, and while a chunk is being
\* read the run under construction
RunsSoFar == IF pc = "chars" THEN Append(spans, current_span) ELSE spans

\* the break point bp names one of the runs of the call so far, the baseline
\* of that run is the current line, and bp's character offset lies within
\* its text
BreakRunOnLine(bp) ==
    /\ bp.span_idx + 1 \in DOMAIN RunsSoFar
    /\ RunsSoFar[bp.span_idx + 1].coords[2] = y
    /\ bp.char_idx <= Len(RunsSoFar[bp.span_idx + 1].text)

\* the input position of the break point bp is in the queue as it is now: in
\* the chunk being read at or before the cursor, or at the start of the chunk
\* about to be read, or in the chunk whose end was just reached
BreakInputInQueue(bp) ==
    /\ bp.input_idx < Len(text)
    /\ bp.input_char_idx <= Len(Normalize(text[bp.input_idx + 1].s))
    /\ IF pc = "chars"
       THEN bp.input_idx = input_idx /\ bp.input_char_idx <= ci
       ELSE bp.input_idx + 1 = input_idx

\* a recorded break point belongs to the current line and the current queue
BreakPointCurrent ==
    (NaturalRunning /\ last_break # <<>>)
        => (BreakRunOnLine(last_break[1]) /\ BreakInputInQueue(last_break[1]))

\* the step moves layout_text_natural to a new line and the call goes on
NaturalLineMove == algo = "natural" /\ y' < y /\ pc' \in {"loop", "chars"}

\* C23: in layout_text_natural the break point is cleared at every move to a
\* new line (explicit "\n", forced break, rewind), and while the call runs a
\* recorded break point names a run, a character offset and an input position
\* of the current line and the current queue: it is never used after the line
\* on which it was recorded.
C23_BreakPointLifetime ==
    /\ []BreakPointCurrent
    /\ [][NaturalLineMove => last_break' = <<>>]_vars

\* C23 witness: a break point recorded at a chunk boundary is alive on the
\* second line, after an earlier line move cleared the one of the first line
C23_Witness ==
    /\ NaturalRunning /\ last_break # <<>> /\ y < start[2]
    /\ last_break[1].input_char_idx = 0 /\ spans # <<>>
    /\ \E i \in DOMAIN spans : spans[i].coords[2] > y

\* ------------------------------------- naive and natural on one input (C24)
\* one chunk of text is laid out by layout_text_naive and then, with the same
\* arguments on a new page, by layout_text_natural
InitBoth ==
    \E t \in SeqsUpTo(Chars, MaxLen), f \in SpanFonts,
       w \in Widths, h \in Heights, g \in Indents :
        LET box == [x1 |-> 0, y1 |-> 0, x2 |-> w, y2 |-> h]
        IN  LayoutEntry("naive", box, StartAt(box, f, g.sx), g.wo,
                        Queue(t, 1, [i \in 0..1 |-> i * Len(t)], <<f>>), "both")

\* what a layout call hands back: the runs added to the page, the queue it
\* leaves, and the coordinate it returns
Outcome == [page |-> page, text |-> text, at |-> <<x, y>>]

\* layout_text_naive has returned: its outcome is kept, and
\* layout_text_natural is called with the same arguments
NaturalAfterNaive ==
    /\ phase = "both" /\ algo = "naive" /\ pc = "done"
    /\ result' = <<Outcome>>
    /\ algo' = "natural"
    /\ text' = input
    /\ EnterLayout(start)
    /\ UNCHANGED <<start, wrap_offset, bounding_box, input, spring, book, fontw, doc,
                   writing, call>>

NextBoth == Next \/ NaturalAfterNaive

SpecBoth == InitBoth /\ [][NextBoth]_vars

\* the input has no whitespace character
NoWhitespace == \A i \in DOMAIN input : \A j \in DOMAIN input[i].s : ~IsWhitespace(input[i].s[j])

\* both calls have returned
BothDone == phase = "both" /\ algo = "natural" /\ pc = "done" /\ result # <<>>

\* C24: for a single-chunk input without whitespace, layout_text_natural adds
\* the same runs (text and coordinates) to the page, leaves the same queue
\* and returns the same coordinate as layout_text_naive called with the same
\* arguments.
C24_NaturalEqualsNaive ==
    (BothDone /\ NoWhitespace) => Outcome = result[1]

\* ------------------------------------------ spring words and line ends (C25)
\* adding the last word of line made the line overflow, too tight to squish
PushBackDue == algo = "spring" /\ pc = "check" /\ SpringOverflows /\ ~SquishFits

\* 'line has ended with the word that was pushed back left in front of words
LineEndsWithout == algo = "spring" /\ pc = "emit" /\ words # <<>>

\* C25: layout_text_spring emits one run per whitespace-separated word, in
\* input order; a word whose addition makes the line overflow beyond what
\* squishing the spaces allows is pushed back to the front of the words, the
\* line ends without it, and it is the first word of the next line.
C25_SpringWordOrder ==
    /\ [](pc = "done" => RunTexts(page) = split_whitespace(input[1].s))
    /\ [][PushBackDue => /\ words' = <<line[Len(line)]>> \o words
                         /\ line' = SubSeq(line, 1, Len(line) - 1)]_vars
    /\ PushBackDue ~> LineEndsWithout

\* -------------------------------------------- runs of layout_text_naive (C26)
RECURSIVE PageText(_)
\* the texts of the runs of the page pg, concatenated in the order added
PageText(pg) == IF pg = <<>> THEN <<>> ELSE Head(pg).text \o PageText(Tail(pg))

\* the characters of t other than "\n"
Visible(t) == SelectSeq(t, LAMBDA c : c # "\n")

\* the normalised input characters layout_text_naive has consumed when the
\* step under way ends the call
NaiveConsumed ==
    SubSeq(NormFlat(input), 1, Len(NormFlat(input)) - NaiveUnconsumed)

\* C26: when layout_text_naive returns, the runs it added to the page hold,
\* in input order, every consumed character other than "\n" exactly once: no
\* run is added twice, also when a horizontal overflow is followed by the
\* failure of the vertical-room check.
C26_NaiveNoDuplicates ==
    [][(algo = "naive" /\ pc # "done" /\ pc' = "done")
          => PageText(page') = Visible(NaiveConsumed)]_vars

\* ------------------------------------------------ pagination progress (C27)
\* the box has room for at least one line, and every glyph of the input fits
\* on the first line and on a continuation line
Roomy ==
    /\ ~BelowBox(start[2], bounding_box, Descent(BookFont))
    /\ GlyphsFit
    /\ \A i \in DOMAIN input :
        \A j \in DOMAIN Normalize(input[i].s) :
            Normalize(input[i].s)[j] # "\n"
                => start[1] + HAdv(input[i].font, Normalize(input[i].s)[j]) < bounding_box.x2

\* the step ends the first call of the loop, which was given the queue input
FirstCallReturns ==
    /\ phase = "paginate" /\ pages = <<>>
    /\ pc # "done" /\ pc' = "done"

\* C27: in the pagination loop over layout_text_naive or layout_text_natural,
\* when the box has room for a line and is wider than every glyph, a call that
\* starts with a queue that holds text leaves a strictly shorter total text, also
\* when the leftover begins with "\n": so the loop comes to an empty queue.
C27_PaginationProgress ==
    [][(FirstCallReturns /\ Roomy /\ QueueLen(input) > 0)
          => QueueLen(text') < QueueLen(input)]_vars

\* ------------------------------------------------- ToUnicode blocks (C28)
RECURSIVE Joined(_)
\* the entries of the blocks, in the order the blocks are written
Joined(blocks) == IF blocks = <<>> THEN <<>> ELSE Head(blocks) \o Joined(Tail(blocks))

\* the (glyph id, char) pairs of Font::glyph_ids, by ascending glyph id
SortedPairs(f) ==
    LET idmap == glyph_ids(f)
    IN  [i \in 1..Cardinality(DOMAIN idmap) |->
            [id |-> SortSet(DOMAIN idmap)[i], char |-> idmap[SortSet(DOMAIN idmap)[i]]]]

\* C28: when write_to_unicode has built its blocks, the blocks joined in the
\* order they are written are exactly the (glyph id, char) pairs of the
\* character map by ascending glyph id, each once, glyph id 0 is not among
\* them, and no block is empty, also when the smallest glyph id is 256 or more.
C28_BlocksPartition ==
    (algo = "font" /\ pc = "written") =>
        /\ Joined(cmap_blocks) = SortedPairs(font_face)
        /\ \A i \in DOMAIN SortedPairs(font_face) :
              /\ SortedPairs(font_face)[i].id # 0
              /\ \A j \in DOMAIN SortedPairs(font_face) :
                    i < j => SortedPairs(font_face)[i].id < SortedPairs(font_face)[j].id
        /\ \A b \in DOMAIN cmap_blocks : cmap_blocks[b] # <<>>

\* --------------------------------------------------------- ObjectReferences
\* next_id is kept below this
MaxRefId == 8

\* the most objects an SVG chunk holds beside its root XObject
MaxSvgRefs == 2

\* enum RefType: the variant and its indexes (0 where it has none)
RefType(variant, i, j) == <<variant, i, j>>

\* the keys references are generated for
RefKeys ==
    {RefType("Catalog", 0, 0), RefType("PageTree", 0, 0), RefType("Page", 0, 0),
     RefType("Page", 1, 0), RefType("Image", 0, 0)}

\* new_id that hands next_id out without moving it on
NewIdNoStep(n) == [id |-> n, next_id |-> n]

\* ObjectReferences::new_id, next_id being n: the Ref, and next_id after it
new_id(n) == [id |-> n, next_id |-> n + 1]

\* ObjectReferences::set_next_id(id): the next_id after it
set_next_id(id) == id

\* ObjectReferences::get(ref_type): Option<Ref>
get(rs, k) == IF k \in DOMAIN rs THEN <<rs[k]>> ELSE <<>>

\* ObjectReferences::gen(ref_type), the map being rs and next_id n: the Ref
\* returned, the map with ref_type bound to it, and next_id after it
gen(rs, n, k) ==
    [id |-> new_id(n).id, refs |-> (k :> new_id(n).id) @@ rs, next_id |-> new_id(n).next_id]

InitRefs ==
    /\ LayoutIdle("refs")
    /\ OthersIdle
    /\ pc = "ready"

\* a caller generates the reference of an object: refs.gen(ref_type)
RefsGen ==
    /\ algo = "refs"
    /\ \E k \in RefKeys \ {RefType("Image", 0, 0)} :
        /\ gen(refs, next_id, k).next_id <= MaxRefId
        /\ refs' = gen(refs, next_id, k).refs
        /\ next_id' = gen(refs, next_id, k).next_id
        /\ issued' = Append(issued, [key |-> k, id |-> gen(refs, next_id, k).id])
        /\ call' = <<"gen", k>>
        /\ result' = <<gen(refs, next_id, k).id>>
    /\ UNCHANGED <<layout, fontw, doc, pc, page_links, page_index, writer, sink>>

\* Image::write of an SVG: the reference of the image is generated, the chunk
\* is renumbered from it on, and next_id is set behind the highest Ref of
\* the chunk
ImageWriteSvg ==
    /\ algo = "refs"
    /\ \E more \in 0..MaxSvgRefs :
        LET k       == RefType("Image", 0, 0)
            id      == gen(refs, next_id, k).id
            max_ref == id + more
        IN  /\ set_next_id(max_ref + 1) <= MaxRefId
            /\ refs' = gen(refs, next_id, k).refs
            /\ next_id' = set_next_id(max_ref + 1)
            /\ issued' = Append(issued, [key |-> k, id |-> id])
            /\ call' = <<"write", k>>
            /\ result' = <<id>>
    /\ UNCHANGED <<layout, fontw, doc, pc, page_links, page_index, writer, sink>>

\* a caller looks a reference up: refs.get(ref_type)
RefsGet ==
    /\ algo = "refs"
    /\ \E k \in RefKeys :
        /\ call' = <<"get", k>>
        /\ result' = get(refs, k)
    /\ UNCHANGED <<layout, fontw, doc, pc, writing>>

NextRefs == RefsGen \/ ImageWriteSvg \/ RefsGet

SpecRefs == InitRefs /\ [][NextRefs]_vars

\* the calls of gen, by place in issued, that were given the key k
GensOf(k) == {i \in DOMAIN issued : issued[i].key = k}

\* what the latest gen(k) returned, if gen(k) was called
LatestGen(k) == IF GensOf(k) = {} THEN <<>> ELSE <<issued[SetMax(GensOf(k))].id>>

\* C29: after any sequence of gen calls, with set_next_id only called as
\* Image::write calls it, every gen returned an id no earlier gen returned,
\* no two distinct keys are bound to the same Ref, and get(k) returns the id
\* of the latest gen(k).
C29_RefsUnique ==
    /\ \A i, j \in DOMAIN issued : i < j => issued[i].id # issued[j].id
    /\ \A k, o \in DOMAIN refs : k # o => refs[k] # refs[o]
    /\ \A k \in RefKeys : get(refs, k) = LatestGen(k)
    /\ (algo = "refs" /\ call # <<>> /\ call[1] = "get") => result = LatestGen(call[2])

\* C29 witness: a key was generated twice, an SVG image made next_id skip
\* ids, another key was generated after it, and get found the later id of the
\* key generated twice
C29_Witness ==
    /\ algo = "refs" /\ call # <<>> /\ call[1] = "get"
    /\ Cardinality(GensOf(call[2])) = 2
    /\ result = <<issued[SetMax(GensOf(call[2]))].id>>
    /\ \E i \in DOMAIN issued :
        /\ issued[i].key = RefType("Image", 0, 0)
        /\ i < Len(issued)
        /\ issued[i + 1].id > issued[i].id + 1

\* ------------------------------------------------------------ Document::write
\* the most pages in the arena, places in page_order, and links on a page
MaxArena == 2
MaxOrder == 2
MaxLinks == 2

\* PageLinkReference::ById(id), PageLinkReference::ByIndex(idx)
ById(id) == [kind |-> "ById", page |-> id]
ByIndex(i) == [kind |-> "ByIndex", page |-> i]

\* the links put on the pages: by the id of a page of the arena or of no
\* page of it, by an index inside or outside page_order
Links == {ById(id) : id \in 0..MaxArena} \cup {ByIndex(0), ByIndex(MaxOrder)}

\* Result<(), PDFError>
Ok == <<"Ok">>
PageMissing == <<"Err", "PageMissing">>
IoError == <<"Err", "Io">>

\* the document given to write: an arena of n pages with their links, and a
\* page order that may name ids the arena does not hold
InitWrite ==
    \E n \in 0..MaxArena, order \in SeqsUpTo(0..MaxArena, MaxOrder) :
      \E lk \in [1..n -> SeqsUpTo(Links, MaxLinks)] :
        /\ LayoutIdle("write")
        /\ font_face = <<>>
        /\ id_widths = <<>>
        /\ pos = 0
        /\ start_cid = 0
        /\ current_widths = <<>>
        /\ widths = <<>>
        /\ default_width = 0
        /\ ids = <<>>
        /\ cmap_blocks = <<>>
        /\ current_block = <<>>
        /\ high_byte = 0
        /\ call = <<"write">>
        /\ result = <<>>
        /\ page_order = order
        /\ doc_pages = [i \in 1..n |-> NewPage(PageSizes["A4"])]
        /\ refs = NewRefs.refs
        /\ next_id = NewRefs.next_id
        /\ issued = <<>>
        /\ page_links = lk
        /\ page_index = 0
        /\ writer = <<>>
        /\ sink = <<>>
        /\ pc = "entry"

RECURSIVE GenAll(_, _, _)
\* refs.gen for every key of ks in turn: the Refs returned in order, the map
\* and next_id after the last of them
GenAll(rs, n, ks) ==
    IF ks = <<>> THEN [got |-> <<>>, refs |-> rs, next_id |-> n]
    ELSE LET first == gen(rs, n, Head(ks))
             rest  == GenAll(first.refs, first.next_id, Tail(ks))
         IN  [got |-> <<[key |-> Head(ks), id |-> first.id]>> \o rest.got,
              refs |-> rest.refs, next_id |-> rest.next_id]

\* Document::write up to the loop over the pages: the references of the
\* catalog, the page tree and one per place of page_order; the page tree is
\* put into the Pdf in memory
WriteEntry ==
    /\ algo = "write" /\ pc = "entry"
    /\ LET g == GenAll(refs, next_id,
                       <<RefType("Catalog", 0, 0), RefType("PageTree", 0, 0)>>
                       \o [i \in 1..Len(page_order) |-> RefType("Page", i - 1, 0)])
       IN  /\ refs' = g.refs
           /\ next_id' = g.next_id
           /\ issued' = issued \o g.got
    /\ writer' = <<"pages">>
    /\ page_index' = 0
    /\ pc' = "pages"
    /\ UNCHANGED <<layout, fontw, api, doc, page_links, sink>>

\* a link target that is unwrapped instead of being turned into an error
LinkTargetUnwrap(l, order) ==
    IF l.kind = "ById"
    THEN [ok |-> TRUE, index |-> IF index_of_page(order, l.page) # <<>>
                                 THEN index_of_page(order, l.page)[1] ELSE Len(order)]
    ELSE [ok |-> TRUE, index |-> l.page]

\* Page::write, match link.page: the place in page_order the link leads to;
\* for ById the position of the id in page_order, or PDFError::PageMissing
LinkTarget(l, order) ==
    IF l.kind = "ById"
    THEN IF index_of_page(order, l.page) # <<>>
         THEN [ok |-> TRUE, index |-> index_of_page(order, l.page)[1]]
         ELSE [ok |-> FALSE, index |-> 0]
    ELSE [ok |-> TRUE, index |-> l.page]

RECURSIVE ResolveLinks(_, _, _)
\* Page::write, the loop over the links: "ok" when every target is found,
\* "PageMissing" at the first ? that returns, "panic" at the first unwrap of
\* a page reference that was never generated
ResolveLinks(ls, order, rs) ==
    IF ls = <<>> THEN "ok"
    ELSE IF ~LinkTarget(Head(ls), order).ok THEN "PageMissing"
    ELSE IF get(rs, RefType("Page", LinkTarget(Head(ls), order).index, 0)) = <<>> THEN "panic"
    ELSE ResolveLinks(Tail(ls), order, rs)

\* Document::write, one pass of the loop over page_order: the page is looked
\* up in the arena and written by Page::write (annotation references, link
\* targets, content reference, the objects of the page)
WritePage ==
    /\ algo = "write" /\ pc = "pages" /\ page_index < Len(page_order)
    /\ LET id == page_order[page_index + 1]
       IN  IF id \notin DOMAIN doc_pages
           THEN /\ result' = PageMissing
                /\ pc' = "returned"
                /\ UNCHANGED <<refs, next_id, issued, page_index, writer>>
           ELSE LET ls == page_links[id]
                    a  == GenAll(refs, next_id,
                                 [i \in DOMAIN ls |-> RefType("Annotation", page_index, 0)])
                    c  == gen(a.refs, a.next_id, RefType("ContentForPage", page_index, 0))
                    outcome == ResolveLinks(ls, page_order, a.refs)
                IN  IF outcome = "ok"
                    THEN /\ refs' = c.refs
                         /\ next_id' = c.next_id
                         /\ issued' = issued \o a.got
                                \o <<[key |-> RefType("ContentForPage", page_index, 0),
                                      id |-> c.id]>>
                         /\ writer' = writer \o <<"page">>
                                \o [i \in DOMAIN ls |-> "annotation"] \o <<"content">>
                         /\ page_index' = page_index + 1
                         /\ UNCHANGED <<result, pc>>
                    ELSE /\ refs' = a.refs
                         /\ next_id' = a.next_id
                         /\ issued' = issued \o a.got
                         /\ writer' = Append(writer, "page")
                         /\ result' = IF outcome = "PageMissing" THEN PageMissing ELSE result
                         /\ pc' = IF outcome = "PageMissing" THEN "returned" ELSE "panicked"
                         /\ UNCHANGED page_index
    /\ UNCHANGED <<layout, fontw, doc, call, page_links, sink>>

\* Document::write after the loop: the outline and the catalog are written,
\* and the finished Pdf is given to w, which takes it or fails
WriteFinish ==
    /\ algo = "write" /\ pc = "pages" /\ page_index = Len(page_order)
    /\ LET o == gen(refs, next_id, RefType("Outlines", 0, 0))
       IN  /\ refs' = o.refs
           /\ next_id' = o.next_id
           /\ issued' = Append(issued, [key |-> RefType("Outlines", 0, 0), id |-> o.id])
    /\ writer' = writer \o <<"outlines", "catalog">>
    /\ \E taken \in 0..1 :
        IF taken = 1
        THEN sink' = writer' /\ result' = Ok
        ELSE sink' = SubSeq(writer', 1, 1) /\ result' = IoError
    /\ pc' = "returned"
    /\ UNCHANGED <<layout, fontw, doc, call, page_links, page_index>>

NextWrite == WriteEntry \/ WritePage \/ WriteFinish

SpecWrite == InitWrite /\ [][NextWrite]_vars

\* page_order names a page id the arena does not hold
NamesMissingPage == \E i \in DOMAIN page_order : page_order[i] \notin DOMAIN doc_pages

\* a page of page_order has a link ById to a page that is not in page_order
HasDanglingLink ==
    \E i \in DOMAIN page_order :
        /\ page_order[i] \in DOMAIN doc_pages
        /\ \E k \in DOMAIN page_links[page_order[i]] :
              /\ page_links[page_order[i]][k].kind = "ById"
              /\ page_links[page_order[i]][k].page \notin Range(page_order)

\* the loop is at a place of page_order whose page id the arena does not hold
AtMissingPage ==
    /\ algo = "write" /\ pc = "pages" /\ page_index < Len(page_order)
    /\ page_order[page_index + 1] \notin DOMAIN doc_pages

\* the link l is found: its page is in page_order, or its index is one
LinkFound(l) ==
    IF l.kind = "ById" THEN l.page \in Range(page_order) ELSE l.page < Len(page_order)

\* the loop is at a page whose first link that is not found is one ById
AtDanglingLink ==
    /\ algo = "write" /\ pc = "pages" /\ page_index < Len(page_order)
    /\ page_order[page_index + 1] \in DOMAIN doc_pages
    /\ LET ls == page_links[page_order[page_index + 1]]
       IN  \E k \in DOMAIN ls :
             /\ ls[k].kind = "ById" /\ ~LinkFound(ls[k])
             /\ \A j \in 1..(k - 1) : LinkFound(ls[j])

====
